---- MODULE Spec2Model ----
(***************************************************************************)
(* Model of src/src/sensors.py: the StatisticsTracker, its statistics file *)
(* and the SensorManager that polls the four sensor channels.              *)
(*                                                                         *)
(* Units.  Python floats are held as exact fixed-point integers:           *)
(*   time                 whole seconds of time.time()                     *)
(*   speed                km/h                                             *)
(*   total_distance_km    1/3600 km, so that the code's                    *)
(*                        (speed * time_diff) / 3600.0 km is the integer   *)
(*                        speed * time_diff                                *)
(*   acceleration, force  1/100 g                                          *)
(* time.time() is taken to be non-decreasing, and the values in the file   *)
(* to be numbers.                                                          *)
(*                                                                         *)
(* In Spec, SpecFile, SpecCrash, SpecPoll, SpecCal, SpecFeed, SpecMax and  *)
(* SpecSource each method call is one atomic step at one reading of the    *)
(* clock:                                                                  *)
(*   Spec        one session of a tracker                                  *)
(*   SpecFile    the tracker and its file over restarts and failed writes  *)
(*   SpecCrash   the tracker and its file over processes that stop in a    *)
(*               write                                                     *)
(*   SpecPoll    a SensorManager polled through its accessors, with the    *)
(*               wheel at rest                                             *)
(*   SpecCal     a SensorManager with a turning wheel, calibrated and      *)
(*               polled                                                    *)
(*   SpecFeed    every call of a SensorManager, with the wheel at rest     *)
(*   SpecMax     speed reads of a calibrated SensorManager between resets  *)
(*   SpecSource  the data source over the hardware found at the start      *)
(* In SpecHall and SpecThreads the calls are made by threads and take one  *)
(* step per access to a shared field, under the lock of the object:        *)
(*   SpecHall    the HallSensor, pulse callbacks against readers           *)
(*   SpecThreads the StatisticsTracker called from three threads           *)
(* In SpecLocks the threads take one step per "with self.lock" block, and  *)
(* wait for its lock before; FairLocks is SpecLocks under fair scheduling: *)
(*   SpecLocks   the simulated pulse loop and two calling threads on the   *)
(*               lock of the HallSensor and the lock of the tracker        *)
(***************************************************************************)
EXTENDS Integers, Sequences, FiniteSets, TLC

(***************************************************************************)
(* Bounds of the model.                                                    *)
(***************************************************************************)
StartTime == 1
MaxTime == 3
MaxSpeed == 2
MaxFileTime == 2
MaxPollTime == 6
MaxPolls == 2
MaxCalTime == 2
MaxPulses == 3
MaxCalls == 3
MaxMockPulses == 2

\* the circumference passed to SensorManager(hall_pin, wheel_circumference_m),
\* in m: a pulse a second after the last one is 18 km/h
wheel_circumference_m == 5

\* speeds passed to update_speed, and to update_distance
Speeds == 0 .. MaxSpeed
SignedSpeeds == -1 .. MaxSpeed

\* (ax, ay, az) samples; ax^2 + ay^2 is a perfect square in each of them
AccelInputs == { <<3, 4, 95>>, <<-6, 8, 105>>, <<0, 0, 90>> }

\* what one attempt to write the statistics file can do
WriteOutcomes == { "ok", "error", "partial" }

\* raw readings of the altitude and temperature channels (m, degrees C)
Altitudes == { 118, 123 }
Temperatures == { 24, 26 }

\* the inputs of the persistence specification
FileSpeeds == { 0, MaxSpeed }
FileAccels == { <<3, 4, 95>>, <<0, 0, 90>> }

\* the acceleration readings of the polling specification
PollAccels == { <<3, 4, 95>> }

\* the speeds the threads pass to update_speed
ThreadSpeeds == { 1, 3 }

\* the known values passed to the calibrate calls
KnownSpeeds == { -1, 3 }
KnownAltitudes == { 100 }
KnownTemperatures == { 20 }

(***************************************************************************)
(* Program constants.                                                      *)
(***************************************************************************)
OneG == 100
ErrorTimeout == 5

Channels == { "hall", "barometer", "thermometer", "accelerometer" }

Keys == { "max_speed_kmh", "total_distance_km", "max_cornering_force_g",
          "max_braking_force_g" }

VARIABLES
    now,            \* time.time()
    statistics,     \* the StatisticsTracker's fields
    file,           \* the content of data_file
    call,           \* the most recent call: its name, arguments and time
    ret,            \* what the most recent call returned
    initial_max,    \* max_speed_kmh when the current session began
    max_passed,     \* {} or {largest speed passed to update_speed since the
                    \* construction or the last reset}
    write_failed,   \* some write failed since the tracker was constructed
    HAS_GPIO,       \* RPi.GPIO could be imported
    HAS_I2C,        \* the I2C sensor libraries could be imported
    hall_sensor,    \* the HallSensor's fields
    barometer,      \* the Barometer's fields
    thermometer,    \* the Thermometer's fields
    accelerometer,  \* the Accelerometer's fields
    speed_offset,   \* SensorManager's calibration offsets
    altitude_offset,
    temp_offset,
    sensor_errors,          \* SensorManager.sensor_errors
    last_successful_reads,  \* SensorManager.last_successful_reads
    last_ok,        \* per channel, when an accessor last returned normally
                    \* from its try block (the construction time before that)
    read_ok,        \* the channels an accessor has read with success
    polls,          \* the number of accessor and calibrate calls made
    pc,             \* per thread, where it is in the call it is making
    frame,          \* per thread, the arguments and locals of that call
    hall_lock,      \* the holder of HallSensor.lock, or "free"
    lock,           \* the holder of StatisticsTracker.lock, or "free"
    hall_log,       \* counts of what the pulse callbacks and readers did
    tracker_log     \* what the tracker calls of the threads supplied

trackerVars == << statistics, file, initial_max, max_passed, write_failed >>

channelVars == << HAS_GPIO, HAS_I2C, hall_sensor, barometer, thermometer,
                  accelerometer >>

managerVars == << speed_offset, altitude_offset, temp_offset, sensor_errors,
                  last_successful_reads, last_ok, read_ok, polls >>

threadVars == << pc, frame, hall_lock, lock, hall_log, tracker_log >>

vars == << now, call, ret, trackerVars, channelVars, managerVars,
           threadVars >>

(***************************************************************************)
(* Arithmetic helpers.                                                     *)
(***************************************************************************)
Max(a, b) == IF a > b THEN a ELSE b
Min(a, b) == IF a < b THEN a ELSE b
Abs(a) == IF a < 0 THEN -a ELSE a

\* math.sqrt on the perfect squares the samples produce
Sqrt(n) == CHOOSE r \in 0 .. n : r * r = n

(***************************************************************************)
(* The statistics file.                                                    *)
(***************************************************************************)
NoData == [k \in {} |-> 0]

MissingFile == [state |-> "missing", data |-> NoData]
CorruptFile == [state |-> "corrupt", data |-> NoData]

JsonFile(d) == [state |-> "json", data |-> d]

\* dict.get(key, default)
Get(data, key, default) == IF key \in DOMAIN data THEN data[key] ELSE default

\* faulty variant: the cornering maximum is read from the braking key
_load_data_wrong_key(f) ==
    IF f.state = "json"
    THEN [ max_speed_kmh         |-> Get(f.data, "max_speed_kmh", 0),
           total_distance_km     |-> Get(f.data, "total_distance_km", 0),
           max_cornering_force_g |-> Get(f.data, "max_braking_force_g", 0),
           max_braking_force_g   |-> Get(f.data, "max_braking_force_g", 0) ]
    ELSE [ max_speed_kmh |-> 0, total_distance_km |-> 0,
           max_cornering_force_g |-> 0, max_braking_force_g |-> 0 ]

\* faulty variant: data[key] in place of data.get(key, 0.0); a file that
\* lacks a key is given up as a whole
_load_data_all_or_nothing(f) ==
    IF f.state = "json" /\ Keys \subseteq DOMAIN f.data
    THEN [ max_speed_kmh         |-> f.data["max_speed_kmh"],
           total_distance_km     |-> f.data["total_distance_km"],
           max_cornering_force_g |-> f.data["max_cornering_force_g"],
           max_braking_force_g   |-> f.data["max_braking_force_g"] ]
    ELSE [ max_speed_kmh |-> 0, total_distance_km |-> 0,
           max_cornering_force_g |-> 0, max_braking_force_g |-> 0 ]

\* StatisticsTracker._load_data: the four fields a tracker holds after
\* loading f; a missing file and one that does not parse leave the zeros
_load_data(f) ==
    IF f.state = "json"
    THEN [ max_speed_kmh         |-> Get(f.data, "max_speed_kmh", 0),
           total_distance_km     |-> Get(f.data, "total_distance_km", 0),
           max_cornering_force_g |-> Get(f.data, "max_cornering_force_g", 0),
           max_braking_force_g   |-> Get(f.data, "max_braking_force_g", 0) ]
    ELSE [ max_speed_kmh |-> 0, total_distance_km |-> 0,
           max_cornering_force_g |-> 0, max_braking_force_g |-> 0 ]

\* faulty variant: max_braking_force_g is not written
_save_data_missing_key(st, f, t, w) ==
    IF w = "ok"
    THEN JsonFile([ max_speed_kmh         |-> st.max_speed_kmh,
                    total_distance_km     |-> st.total_distance_km,
                    max_cornering_force_g |-> st.max_cornering_force_g,
                    last_updated          |-> t ])
    ELSE IF w = "partial" THEN CorruptFile ELSE f

\* StatisticsTracker._save_data: the file after one attempt to write the
\* fields st at time t.  "error": makedirs or open failed, the file is
\* untouched; "partial": open(.., 'w') truncated the file and json.dump
\* failed, what is left does not parse.
_save_data(st, f, t, w) ==
    IF w = "ok"
    THEN JsonFile([ max_speed_kmh         |-> st.max_speed_kmh,
                    total_distance_km     |-> st.total_distance_km,
                    max_cornering_force_g |-> st.max_cornering_force_g,
                    max_braking_force_g   |-> st.max_braking_force_g,
                    last_updated          |-> t ])
    ELSE IF w = "partial" THEN CorruptFile ELSE f

\* the files a tracker can find when it is constructed
InitialFiles ==
    { MissingFile, CorruptFile,
      JsonFile([max_speed_kmh |-> 2, total_distance_km |-> 3,
                max_cornering_force_g |-> 5, max_braking_force_g |-> 10,
                last_updated |-> 0]),
      JsonFile([total_distance_km |-> 1, max_braking_force_g |-> 5]) }

(***************************************************************************)
(* StatisticsTracker.  A tracker state S is the tracker's fields, the file *)
(* and the outcomes of the writes made so far in the current call.         *)
(***************************************************************************)
Tracker(st, f) == [stats |-> st, file |-> f, writes |-> << >>]

Save(S, t, w) ==
    [ stats  |-> S.stats,
      file   |-> _save_data(S.stats, S.file, t, w),
      writes |-> Append(S.writes, w) ]

\* StatisticsTracker.__init__ at time t on file f
StatisticsTracker(f, t) ==
    LET d == _load_data(f)
    IN  [ max_speed_kmh         |-> d.max_speed_kmh,
          total_distance_km     |-> d.total_distance_km,
          max_cornering_force_g |-> d.max_cornering_force_g,
          max_braking_force_g   |-> d.max_braking_force_g,
          session_start_time    |-> t,
          last_update_time      |-> t ]

\* faulty variant: the maximum is replaced without the comparison
update_speed_overwrite(S, speed_kmh, t, w) ==
    Save([S EXCEPT !.stats.max_speed_kmh = speed_kmh], t, w)

\* faulty variant: update_speed moves the time reference of the distance
update_speed_moves_clock(S, speed_kmh, t, w) ==
    LET S1 == IF speed_kmh > S.stats.max_speed_kmh
              THEN Save([S EXCEPT !.stats.max_speed_kmh = speed_kmh], t, w)
              ELSE S
    IN  [S1 EXCEPT !.stats.last_update_time = t]

\* faulty variant: update_speed saves whether the maximum moved or not
update_speed_always_saves(S, speed_kmh, t, w) ==
    Save([S EXCEPT !.stats.max_speed_kmh = Max(@, speed_kmh)], t, w)

update_speed(S, speed_kmh, t, w) ==
    IF speed_kmh > S.stats.max_speed_kmh
    THEN Save([S EXCEPT !.stats.max_speed_kmh = speed_kmh], t, w)
    ELSE S

\* faulty variant: the speed is not tested for being positive
update_distance_any_speed(S, current_speed_kmh, t, w) ==
    LET time_diff == t - S.stats.last_update_time
        S2 == IF time_diff > 0
              THEN LET distance_km == current_speed_kmh * time_diff
                   IN  Save([S EXCEPT !.stats.total_distance_km =
                                          @ + distance_km], t, w)
              ELSE S
    IN  [S2 EXCEPT !.stats.last_update_time = t]

\* faulty variant: the elapsed time is left out of the product
update_distance_per_call(S, current_speed_kmh, t, w) ==
    LET time_diff == t - S.stats.last_update_time
        S2 == IF time_diff > 0 /\ current_speed_kmh > 0
              THEN LET distance_km == current_speed_kmh
                   IN  Save([S EXCEPT !.stats.total_distance_km =
                                          @ + distance_km], t, w)
              ELSE S
    IN  [S2 EXCEPT !.stats.last_update_time = t]

\* faulty variant: last_update_time moves only when distance is added
update_distance_idle_clock(S, current_speed_kmh, t, w) ==
    LET time_diff == t - S.stats.last_update_time
    IN  IF time_diff > 0 /\ current_speed_kmh > 0
        THEN LET distance_km == current_speed_kmh * time_diff
                 S1 == [S EXCEPT !.stats.total_distance_km = @ + distance_km]
                 S2 == Save(S1, t, w)
             IN  [S2 EXCEPT !.stats.last_update_time = t]
        ELSE S

\* StatisticsTracker.update_distance; distance_km is in 1/3600 km
update_distance(S, current_speed_kmh, t, w) ==
    LET time_diff == t - S.stats.last_update_time
        S2 == IF time_diff > 0 /\ current_speed_kmh > 0
              THEN LET distance_km == current_speed_kmh * time_diff
                   IN  Save([S EXCEPT !.stats.total_distance_km =
                                          @ + distance_km], t, w)
              ELSE S
    IN  [S2 EXCEPT !.stats.last_update_time = t]

\* faulty variant: the braking force is abs(az - 1.0), without min(0, ..)
update_acceleration_abs(S, a, t, w1, w2) ==
    LET lateral_force == Sqrt(a[1] * a[1] + a[2] * a[2])
        S1 == IF lateral_force > S.stats.max_cornering_force_g
              THEN Save([S EXCEPT !.stats.max_cornering_force_g =
                                      lateral_force], t, w1)
              ELSE S
        braking_force == Abs(a[3] - OneG)
    IN  IF braking_force > S1.stats.max_braking_force_g
        THEN Save([S1 EXCEPT !.stats.max_braking_force_g = braking_force],
                  t, w2)
        ELSE S1

\* StatisticsTracker.update_acceleration; each maximum has its own write
update_acceleration(S, a, t, w1, w2) ==
    LET lateral_force == Sqrt(a[1] * a[1] + a[2] * a[2])
        S1 == IF lateral_force > S.stats.max_cornering_force_g
              THEN Save([S EXCEPT !.stats.max_cornering_force_g =
                                      lateral_force], t, w1)
              ELSE S
        braking_force == Abs(Min(0, a[3] - OneG))
    IN  IF braking_force > S1.stats.max_braking_force_g
        THEN Save([S1 EXCEPT !.stats.max_braking_force_g = braking_force],
                  t, w2)
        ELSE S1

\* the four persisted statistics of the fields st
Persisted(st) ==
    << st.max_speed_kmh, st.total_distance_km, st.max_cornering_force_g,
       st.max_braking_force_g >>

\* the dict StatisticsTracker.get_statistics returns at time t;
\* session_duration_hours is in 1/3600 h
get_statistics(st, t) ==
    [ max_speed_kmh          |-> st.max_speed_kmh,
      total_distance_km      |-> st.total_distance_km,
      max_cornering_force_g  |-> st.max_cornering_force_g,
      max_braking_force_g    |-> st.max_braking_force_g,
      session_duration_hours |-> t - st.session_start_time ]

\* faulty variant: max_braking_force_g and the session clock are kept
reset_statistics_partial(S, t, w) ==
    Save([S EXCEPT !.stats.max_speed_kmh = 0,
                   !.stats.total_distance_km = 0,
                   !.stats.max_cornering_force_g = 0,
                   !.stats.last_update_time = t], t, w)

reset_statistics(S, t, w) ==
    Save([S EXCEPT !.stats.max_speed_kmh = 0,
                   !.stats.total_distance_km = 0,
                   !.stats.max_cornering_force_g = 0,
                   !.stats.max_braking_force_g = 0,
                   !.stats.session_start_time = t,
                   !.stats.last_update_time = t], t, w)

(***************************************************************************)
(* The sensor channels.  A channel read returns the channel after the read *)
(* and the value read.  raw is what the driver, or the simulation of a     *)
(* channel without hardware, delivers; fails says that the driver raised.  *)
(***************************************************************************)
Reading(v, t) == [value |-> v, timestamp |-> t]

\* HallSensor.__init__
HallSensor == [speed_kmh |-> 0, last_pulse_time |-> 0, pulse_count |-> 0]

\* Barometer.__init__, Thermometer.__init__, Accelerometer.__init__;
\* sensor says that the driver object was created
Barometer(sensor) == [sensor |-> sensor, last_reading |-> Reading(0, 0)]
Thermometer(sensor) == [sensor |-> sensor, last_reading |-> Reading(25, 0)]
Accelerometer(sensor) == [sensor |-> sensor, last_reading |-> Reading(0, 0)]

HallSensor_get_speed_kmh(h) == h.speed_kmh

\* faulty variant: a failed read stamps the stored reading anew
Barometer_get_altitude_m_restamps(b, t, raw, fails) ==
    IF b.sensor
    THEN IF ~fails
         THEN [channel |-> [b EXCEPT !.last_reading = Reading(raw, t)],
               value |-> raw]
         ELSE [channel |-> [b EXCEPT !.last_reading =
                                         Reading(b.last_reading.value, t)],
               value |-> b.last_reading.value]
    ELSE [channel |-> b, value |-> raw]

Barometer_get_altitude_m(b, t, raw, fails) ==
    IF b.sensor
    THEN IF ~fails
         THEN [channel |-> [b EXCEPT !.last_reading = Reading(raw, t)],
               value |-> raw]
         ELSE [channel |-> b, value |-> b.last_reading.value]
    ELSE [channel |-> b, value |-> raw]

Thermometer_get_temperature_c(th, t, raw, fails) ==
    IF th.sensor
    THEN IF ~fails
         THEN [channel |-> [th EXCEPT !.last_reading = Reading(raw, t)],
               value |-> raw]
         ELSE [channel |-> th, value |-> th.last_reading.value]
    ELSE [channel |-> th, value |-> raw]

\* raw is the driver's reading divided by 9.81, or the simulated reading
Accelerometer_get_acceleration_g(ac, raw, fails) ==
    IF ac.sensor
    THEN IF ~fails
         THEN [channel |-> ac, value |-> raw]
         ELSE [channel |-> ac, value |-> <<0, 0, OneG>>]
    ELSE [channel |-> ac, value |-> raw]

(***************************************************************************)
(* SensorManager.  A manager state M is the manager's fields, with its     *)
(* tracker as a tracker state M.S.  An accessor returns the manager after  *)
(* the call and the value returned.  raises says that an exception left    *)
(* the channel read inside the accessor's try block.                       *)
(***************************************************************************)
\* faulty variant: the speed is not clamped at 0
get_speed_kmh_unclamped(M, t, raises, w1, w2) ==
    IF raises
    THEN [M |-> [M EXCEPT !.sensor_errors["hall"] = TRUE], value |-> 0]
    ELSE LET speed == HallSensor_get_speed_kmh(M.hall_sensor) + M.speed_offset
             S1 == update_speed(M.S, speed, t, w1)
             S2 == update_distance(S1, speed, t, w2)
         IN  [M |-> [M EXCEPT !.last_successful_reads["hall"] = t,
                              !.sensor_errors["hall"] = FALSE,
                              !.S = S2],
              value |-> speed]

\* faulty variant: the statistics are fed the uncalibrated wheel speed
get_speed_kmh_feeds_raw(M, t, raises, w1, w2) ==
    IF raises
    THEN [M |-> [M EXCEPT !.sensor_errors["hall"] = TRUE], value |-> 0]
    ELSE LET raw == HallSensor_get_speed_kmh(M.hall_sensor)
             speed == Max(0, raw + M.speed_offset)
             S1 == update_speed(M.S, raw, t, w1)
             S2 == update_distance(S1, raw, t, w2)
         IN  [M |-> [M EXCEPT !.last_successful_reads["hall"] = t,
                              !.sensor_errors["hall"] = FALSE,
                              !.S = S2],
              value |-> speed]

\* faulty variant: the speed is passed to update_distance only
get_speed_kmh_distance_only(M, t, raises, w1, w2) ==
    IF raises
    THEN [M |-> [M EXCEPT !.sensor_errors["hall"] = TRUE], value |-> 0]
    ELSE LET speed == Max(0, HallSensor_get_speed_kmh(M.hall_sensor)
                                 + M.speed_offset)
             S2 == update_distance(M.S, speed, t, w2)
         IN  [M |-> [M EXCEPT !.last_successful_reads["hall"] = t,
                              !.sensor_errors["hall"] = FALSE,
                              !.S = S2],
              value |-> speed]

get_speed_kmh(M, t, raises, w1, w2) ==
    IF raises
    THEN [M |-> [M EXCEPT !.sensor_errors["hall"] = TRUE], value |-> 0]
    ELSE LET speed == Max(0, HallSensor_get_speed_kmh(M.hall_sensor)
                                 + M.speed_offset)
             S1 == update_speed(M.S, speed, t, w1)
             S2 == update_distance(S1, speed, t, w2)
         IN  [M |-> [M EXCEPT !.last_successful_reads["hall"] = t,
                              !.sensor_errors["hall"] = FALSE,
                              !.S = S2],
              value |-> speed]

\* faulty variant: a successful read does not clear the error flag
get_altitude_m_keeps_error(M, t, raises, raw, fails) ==
    IF raises
    THEN [M |-> [M EXCEPT !.sensor_errors["barometer"] = TRUE], value |-> 0]
    ELSE LET r == Barometer_get_altitude_m(M.barometer, t, raw, fails)
             altitude == r.value + M.altitude_offset
         IN  [M |-> [M EXCEPT !.barometer = r.channel,
                              !.last_successful_reads["barometer"] = t],
              value |-> altitude]

get_altitude_m(M, t, raises, raw, fails) ==
    IF raises
    THEN [M |-> [M EXCEPT !.sensor_errors["barometer"] = TRUE], value |-> 0]
    ELSE LET r == Barometer_get_altitude_m(M.barometer, t, raw, fails)
             altitude == r.value + M.altitude_offset
         IN  [M |-> [M EXCEPT !.barometer = r.channel,
                              !.last_successful_reads["barometer"] = t,
                              !.sensor_errors["barometer"] = FALSE],
              value |-> altitude]

\* faulty variant: the fallback of the altitude accessor is returned
get_temperature_c_zero_fallback(M, t, raises, raw, fails) ==
    IF raises
    THEN [M |-> [M EXCEPT !.sensor_errors["thermometer"] = TRUE],
          value |-> 0]
    ELSE LET r == Thermometer_get_temperature_c(M.thermometer, t, raw, fails)
             temp == r.value + M.temp_offset
         IN  [M |-> [M EXCEPT !.thermometer = r.channel,
                              !.last_successful_reads["thermometer"] = t,
                              !.sensor_errors["thermometer"] = FALSE],
              value |-> temp]

get_temperature_c(M, t, raises, raw, fails) ==
    IF raises
    THEN [M |-> [M EXCEPT !.sensor_errors["thermometer"] = TRUE],
          value |-> 25]
    ELSE LET r == Thermometer_get_temperature_c(M.thermometer, t, raw, fails)
             temp == r.value + M.temp_offset
         IN  [M |-> [M EXCEPT !.thermometer = r.channel,
                              !.last_successful_reads["thermometer"] = t,
                              !.sensor_errors["thermometer"] = FALSE],
              value |-> temp]

get_acceleration_g(M, t, raises, raw, fails, w1, w2) ==
    IF raises
    THEN [M |-> [M EXCEPT !.sensor_errors["accelerometer"] = TRUE],
          value |-> <<0, 0, OneG>>]
    ELSE LET r == Accelerometer_get_acceleration_g(M.accelerometer, raw, fails)
             accel == r.value
         IN  [M |-> [M EXCEPT !.accelerometer = r.channel,
                              !.last_successful_reads["accelerometer"] = t,
                              !.sensor_errors["accelerometer"] = FALSE,
                              !.S = update_acceleration(M.S, accel, t, w1, w2)],
              value |-> accel]

\* faulty variant: the time since the last read is not tested
get_sensor_status_no_timeout(M, t) ==
    [ sensor_name \in Channels |->
        LET time_since_last == t - M.last_successful_reads[sensor_name]
            is_healthy == ~M.sensor_errors[sensor_name]
        IN  [ healthy |-> is_healthy,
              error |-> M.sensor_errors[sensor_name],
              time_since_last_read |-> time_since_last ] ]

get_sensor_status(M, t) ==
    [ sensor_name \in Channels |->
        LET time_since_last == t - M.last_successful_reads[sensor_name]
            is_healthy == /\ ~M.sensor_errors[sensor_name]
                          /\ time_since_last < ErrorTimeout
        IN  [ healthy |-> is_healthy,
              error |-> M.sensor_errors[sensor_name],
              time_since_last_read |-> time_since_last ] ]

(***************************************************************************)
(* The steps of the specifications.  Every call happens at the current     *)
(* time; its inputs are drawn from the sets the specification passes.      *)
(***************************************************************************)
Cur == Tracker(statistics, file)

\* the manager as it is
Mgr ==
    [ hall_sensor |-> hall_sensor, barometer |-> barometer,
      thermometer |-> thermometer, accelerometer |-> accelerometer,
      S |-> Cur,
      speed_offset |-> speed_offset, altitude_offset |-> altitude_offset,
      temp_offset |-> temp_offset,
      sensor_errors |-> sensor_errors,
      last_successful_reads |-> last_successful_reads ]

NoAccel == <<0, 0, 0>>
NoRet == [kind |-> "none"]

\* the outcome of the last write a call made, "none" when it wrote nothing
Wrote(S) == IF S.writes = << >> THEN "none" ELSE S.writes[Len(S.writes)]

Called(op, v, a, S) ==
    [op |-> op, speed |-> v, accel |-> a, t |-> now, wrote |-> Wrote(S)]

\* an accessor call on channel c: whether it raised, whether the driver of
\* the channel failed in it, what the channel read returned (0 when it raised),
\* and whether the channel was marked in error or was stale when the call was
\* made
Polled(op, c, raises, failed, raw, S) ==
    [ op |-> op, channel |-> c, raised |-> raises,
      failed |-> ~raises /\ failed,
      raw |-> IF raises THEN 0 ELSE raw,
      t |-> now,
      wrote |-> Wrote(S),
      was_error |-> sensor_errors[c],
      was_stale |-> now - last_successful_reads[c] >= ErrorTimeout ]

Failed(S) == \E i \in 1 .. Len(S.writes) : S.writes[i] # "ok"

\* the tracker and the file take the result S of a call
Result(S) ==
    /\ statistics' = S.stats
    /\ file' = S.file
    /\ write_failed' = (write_failed \/ Failed(S))

\* the manager takes the result R of an accessor call on channel c
Returned(R, c, raises, kind) ==
    /\ barometer' = R.M.barometer
    /\ thermometer' = R.M.thermometer
    /\ accelerometer' = R.M.accelerometer
    /\ hall_sensor' = R.M.hall_sensor
    /\ speed_offset' = R.M.speed_offset
    /\ altitude_offset' = R.M.altitude_offset
    /\ temp_offset' = R.M.temp_offset
    /\ sensor_errors' = R.M.sensor_errors
    /\ last_successful_reads' = R.M.last_successful_reads
    /\ Result(R.M.S)
    /\ ret' = [kind |-> kind, value |-> R.value]
    /\ last_ok' = IF raises THEN last_ok ELSE [last_ok EXCEPT ![c] = now]
    /\ read_ok' = IF raises THEN read_ok ELSE read_ok \cup {c}
    /\ polls < MaxPolls
    /\ polls' = polls + 1
    /\ max_passed' = IF kind # "speed" \/ raises
                         \/ \E m \in max_passed : m >= R.value
                     THEN max_passed ELSE {R.value}
    /\ UNCHANGED << now, HAS_GPIO, HAS_I2C, initial_max, threadVars >>

\* StatisticsTracker.__init__ on the file f
Construct(f) ==
    /\ statistics' = StatisticsTracker(f, now')
    /\ call' = [op |-> "__init__", speed |-> 0, accel |-> NoAccel,
                t |-> now', wrote |-> "none"]
    /\ ret' = NoRet
    /\ initial_max' = statistics'.max_speed_kmh
    /\ max_passed' = {}
    /\ write_failed' = FALSE

TrackerInit(F) ==
    /\ now = StartTime
    /\ file \in F
    /\ statistics = StatisticsTracker(file, now)
    /\ call = [op |-> "__init__", speed |-> 0, accel |-> NoAccel,
               t |-> now, wrote |-> "none"]
    /\ ret = NoRet
    /\ initial_max = statistics.max_speed_kmh
    /\ max_passed = {}
    /\ write_failed = FALSE

\* what the process finds when it starts: the libraries that import, and the
\* I2C drivers that initialise
NoHardware == [gpio |-> FALSE, i2c |-> FALSE, drivers |-> FALSE]
AllHardware == [gpio |-> TRUE, i2c |-> TRUE, drivers |-> TRUE]

\* SensorManager.__init__
SensorManagerInit(hw) ==
    /\ HAS_GPIO = hw.gpio
    /\ HAS_I2C = hw.i2c
    /\ hall_sensor = HallSensor
    /\ barometer = Barometer(hw.i2c /\ hw.drivers)
    /\ thermometer = Thermometer(hw.i2c /\ hw.drivers)
    /\ accelerometer = Accelerometer(hw.i2c /\ hw.drivers)
    /\ speed_offset = 0
    /\ altitude_offset = 0
    /\ temp_offset = 0
    /\ sensor_errors = [c \in Channels |-> FALSE]
    /\ last_successful_reads = [c \in Channels |-> now]
    /\ last_ok = [c \in Channels |-> now]
    /\ read_ok = {}
    /\ polls = 0

\* time passes
Tick(limit) ==
    /\ now < limit
    /\ now' = now + 1
    /\ UNCHANGED << call, ret, trackerVars, channelVars, managerVars, threadVars >>

\* the process is started again: a new tracker is constructed on the file
Restart ==
    /\ UNCHANGED << now, file, channelVars, managerVars, threadVars >>
    /\ Construct(file)

UpdateSpeed(V, W) ==
    \E v \in V, w \in W :
        LET S == update_speed(Cur, v, now, w)
        IN  /\ Result(S)
            /\ call' = Called("update_speed", v, NoAccel, S)
            /\ ret' = NoRet
            /\ max_passed' = IF \E m \in max_passed : m >= v
                             THEN max_passed ELSE {v}
            /\ UNCHANGED << now, initial_max, channelVars, managerVars, threadVars >>

UpdateDistance(V, W) ==
    \E v \in V, w \in W :
        LET S == update_distance(Cur, v, now, w)
        IN  /\ Result(S)
            /\ call' = Called("update_distance", v, NoAccel, S)
            /\ ret' = NoRet
            /\ UNCHANGED << now, initial_max, max_passed, channelVars,
                            managerVars, threadVars >>

UpdateAcceleration(A, W) ==
    \E a \in A, w1 \in W, w2 \in W :
        LET S == update_acceleration(Cur, a, now, w1, w2)
        IN  /\ Result(S)
            /\ call' = Called("update_acceleration", 0, a, S)
            /\ ret' = NoRet
            /\ UNCHANGED << now, initial_max, max_passed, channelVars,
                            managerVars, threadVars >>

\* StatisticsTracker.get_statistics, which SensorManager.get_statistics calls
GetStatistics ==
    /\ call' = Called("get_statistics", 0, NoAccel, Cur)
    /\ ret' = [kind |-> "statistics", value |-> get_statistics(statistics, now)]
    /\ UNCHANGED << now, trackerVars, channelVars, managerVars, threadVars >>

\* StatisticsTracker.reset_statistics, which SensorManager.reset_statistics
\* calls
ResetStatistics(W) ==
    \E w \in W :
        LET S == reset_statistics(Cur, now, w)
        IN  /\ Result(S)
            /\ call' = Called("reset_statistics", 0, NoAccel, S)
            /\ ret' = NoRet
            /\ initial_max' = 0
            /\ max_passed' = {}
            /\ UNCHANGED << now, channelVars, managerVars, threadVars >>

GetSpeedKmh(W) ==
    \E raises \in BOOLEAN, w1 \in W, w2 \in W :
        LET R == get_speed_kmh(Mgr, now, raises, w1, w2)
        IN  /\ Returned(R, "hall", raises, "speed")
            /\ call' = Polled("get_speed_kmh", "hall", raises, FALSE,
                              HallSensor_get_speed_kmh(hall_sensor), R.M.S)

GetAltitudeM ==
    \E raises \in BOOLEAN, raw \in Altitudes, fails \in BOOLEAN :
        LET R == get_altitude_m(Mgr, now, raises, raw, fails)
            r == Barometer_get_altitude_m(barometer, now, raw, fails)
        IN  /\ Returned(R, "barometer", raises, "altitude")
            /\ call' = Polled("get_altitude_m", "barometer", raises,
                              barometer.sensor /\ fails, r.value, R.M.S)

GetTemperatureC ==
    \E raises \in BOOLEAN, raw \in Temperatures, fails \in BOOLEAN :
        LET R == get_temperature_c(Mgr, now, raises, raw, fails)
            r == Thermometer_get_temperature_c(thermometer, now, raw, fails)
        IN  /\ Returned(R, "thermometer", raises, "temperature")
            /\ call' = Polled("get_temperature_c", "thermometer", raises,
                              thermometer.sensor /\ fails, r.value, R.M.S)

GetAccelerationG(A, W) ==
    \E raises \in BOOLEAN, raw \in A, fails \in BOOLEAN, w1 \in W, w2 \in W :
        LET R == get_acceleration_g(Mgr, now, raises, raw, fails, w1, w2)
            r == Accelerometer_get_acceleration_g(accelerometer, raw, fails)
        IN  /\ Returned(R, "accelerometer", raises, "acceleration")
            /\ call' = Polled("get_acceleration_g", "accelerometer", raises,
                              accelerometer.sensor /\ fails, r.value, R.M.S)

GetSensorStatus ==
    /\ call' = Called("get_sensor_status", 0, NoAccel, Cur)
    /\ ret' = [kind |-> "status", value |-> get_sensor_status(Mgr, now)]
    /\ UNCHANGED << now, trackerVars, channelVars, managerVars, threadVars >>

(***************************************************************************)
(* The wheel and the calibration of the SensorManager.                     *)
(***************************************************************************)
\* HallSensor._pulse_callback at time t.  speed_ms * 3.6 is
\* wheel_circumference_m * 36 / (10 * time_diff), a whole number of km/h for
\* the circumference and the gaps between pulses of the model.
\* faulty variant: the first pulse measures from the epoch
_pulse_callback_from_epoch(h, t) ==
    LET current_time == t
        time_diff == current_time - h.last_pulse_time
        h1 == IF time_diff > 0
              THEN [h EXCEPT !.speed_kmh =
                        (wheel_circumference_m * 36) \div (10 * time_diff)]
              ELSE h
    IN  [h1 EXCEPT !.last_pulse_time = current_time, !.pulse_count = @ + 1]

_pulse_callback(h, t) ==
    LET current_time == t
        time_diff == current_time - h.last_pulse_time
        h1 == IF h.last_pulse_time > 0 /\ time_diff > 0
              THEN [h EXCEPT !.speed_kmh =
                                 (wheel_circumference_m * 36) \div (10 * time_diff)]
              ELSE h
    IN  [h1 EXCEPT !.last_pulse_time = current_time,
                   !.pulse_count = @ + 1]

\* faulty variant: the offset is taken with the wrong sign
calibrate_speed_negated(M, known_speed_kmh) ==
    LET current_speed == HallSensor_get_speed_kmh(M.hall_sensor)
    IN  [M EXCEPT !.speed_offset = current_speed - known_speed_kmh]

calibrate_speed(M, known_speed_kmh) ==
    LET current_speed == HallSensor_get_speed_kmh(M.hall_sensor)
    IN  [M EXCEPT !.speed_offset = known_speed_kmh - current_speed]

\* faulty variant: the reading is taken through the coordinator's accessor,
\* which adds the offset of the calibration before
calibrate_altitude_adjusted(M, t, known_altitude_m, raw, fails) ==
    LET r == Barometer_get_altitude_m(M.barometer, t, raw, fails)
        current_altitude == r.value + M.altitude_offset
    IN  [M EXCEPT !.barometer = r.channel,
                  !.altitude_offset = known_altitude_m - current_altitude]

calibrate_altitude(M, t, known_altitude_m, raw, fails) ==
    LET r == Barometer_get_altitude_m(M.barometer, t, raw, fails)
        current_altitude == r.value
    IN  [M EXCEPT !.barometer = r.channel,
                  !.altitude_offset = known_altitude_m - current_altitude]

calibrate_temperature(M, t, known_temp_c, raw, fails) ==
    LET r == Thermometer_get_temperature_c(M.thermometer, t, raw, fails)
        current_temp == r.value
    IN  [M EXCEPT !.thermometer = r.channel,
                  !.temp_offset = known_temp_c - current_temp]

\* faulty variant: the answer follows the barometer's driver
get_data_source_by_channel(gpio, i2c, b) ==
    IF gpio /\ i2c /\ b.sensor THEN "Real Sensors" ELSE "Demo Mode"

\* SensorManager.get_data_source; b, the barometer, is not looked at
get_data_source(gpio, i2c, b) ==
    IF gpio /\ i2c THEN "Real Sensors" ELSE "Demo Mode"

\* the manager takes the result M of a calibrate call
Calibrated(M, op, known, raw) ==
    /\ barometer' = M.barometer
    /\ thermometer' = M.thermometer
    /\ speed_offset' = M.speed_offset
    /\ altitude_offset' = M.altitude_offset
    /\ temp_offset' = M.temp_offset
    /\ call' = [op |-> op, known |-> known, raw |-> raw, t |-> now]
    /\ ret' = NoRet
    /\ polls < MaxPolls
    /\ polls' = polls + 1
    /\ UNCHANGED << now, trackerVars, HAS_GPIO, HAS_I2C, hall_sensor,
                    accelerometer, sensor_errors, last_successful_reads,
                    last_ok, read_ok, threadVars >>

\* a magnet passes the hall sensor
Pulse ==
    /\ hall_sensor.pulse_count < MaxPulses
    /\ hall_sensor' = _pulse_callback(hall_sensor, now)
    /\ call' = [op |-> "_pulse_callback", t |-> now]
    /\ ret' = NoRet
    /\ UNCHANGED << now, trackerVars, HAS_GPIO, HAS_I2C, barometer,
                    thermometer, accelerometer, managerVars, threadVars >>

CalibrateSpeed(K) ==
    \E known \in K :
        Calibrated(calibrate_speed(Mgr, known), "calibrate_speed", known,
                   HallSensor_get_speed_kmh(hall_sensor))

CalibrateAltitude(K) ==
    \E known \in K, raw \in Altitudes, fails \in BOOLEAN :
        Calibrated(calibrate_altitude(Mgr, now, known, raw, fails),
                   "calibrate_altitude", known,
                   Barometer_get_altitude_m(barometer, now, raw, fails).value)

CalibrateTemperature(K) ==
    \E known \in K, raw \in Temperatures, fails \in BOOLEAN :
        Calibrated(calibrate_temperature(Mgr, now, known, raw, fails),
                   "calibrate_temperature", known,
                   Thermometer_get_temperature_c(thermometer, now, raw,
                                                 fails).value)

GetDataSource ==
    /\ call' = Called("get_data_source", 0, NoAccel, Cur)
    /\ ret' = [kind |-> "source",
               value |-> get_data_source(HAS_GPIO, HAS_I2C, barometer)]
    /\ UNCHANGED << now, trackerVars, channelVars, managerVars, threadVars >>

(***************************************************************************)
(* Threads.  In the specifications above a call is one step.  Here a call  *)
(* is made by a thread and takes one step per access to a shared field,    *)
(* between the acquisition and the release of the lock of the object.      *)
(***************************************************************************)
Threads == { "t1", "t2", "t3" }

\* the threads that deliver pulses and the thread that polls in SpecHall
PulseThreads == { "t1", "t2" }
PollThreads == { "t3" }

NoFrame == [op |-> "none"]

\* the log of the tracker calls of the threads when none was made: the
\* largest candidates are the maxima st the tracker begins with
NoCalls(st) ==
    [ calls |-> 0, resets |-> 0, last_write |-> "none",
      speed |-> st.max_speed_kmh,
      cornering |-> st.max_cornering_force_g,
      braking |-> st.max_braking_force_g ]

\* where no thread calls the tracker nothing is logged
NoLog == [calls |-> 0]

ThreadsInit(log) ==
    /\ pc = [t \in Threads |-> "idle"]
    /\ frame = [t \in Threads |-> NoFrame]
    /\ hall_lock = "free"
    /\ lock = "free"
    /\ hall_log = [started |-> 0, stamped |-> 0, completed |-> 0, reads |-> 0]
    /\ tracker_log = log

\* faulty variant: the lock is taken whoever holds it
CanAcquire_unguarded(l) == TRUE

\* threading.Lock: "with self.lock" enters when the lock l is free
CanAcquire(l) == l = "free"

\* the labels at which a thread is inside "with self.lock" of the HallSensor
HallCritical ==
    { "pulse_speed", "pulse_stamp", "pulse_load", "pulse_store",
      "pulse_release", "read_field", "read_release" }

\* what a step of a HallSensor method leaves alone
HallFrame ==
    UNCHANGED << now, call, ret, trackerVars, HAS_GPIO, HAS_I2C, barometer,
                 thermometer, accelerometer, managerVars, lock, tracker_log >>

\* _pulse_callback enters "with self.lock"
PulseAcquire(t) ==
    /\ t \in PulseThreads
    /\ pc[t] = "idle"
    /\ hall_log.started < MaxPulses
    /\ CanAcquire(hall_lock)
    /\ hall_lock' = t
    /\ pc' = [pc EXCEPT ![t] = "pulse_speed"]
    /\ frame' = [frame EXCEPT ![t] = [op |-> "_pulse_callback"]]
    /\ hall_log' = [hall_log EXCEPT !.started = @ + 1]
    /\ UNCHANGED hall_sensor
    /\ HallFrame

\* current_time = time.time() and the assignment to speed_kmh
PulseSpeed(t) ==
    /\ pc[t] = "pulse_speed"
    /\ hall_sensor' = [hall_sensor EXCEPT !.speed_kmh =
                           _pulse_callback(hall_sensor, now).speed_kmh]
    /\ frame' = [frame EXCEPT ![t] = [op |-> "_pulse_callback",
                                      current_time |-> now]]
    /\ pc' = [pc EXCEPT ![t] = "pulse_stamp"]
    /\ UNCHANGED << hall_lock, hall_log >>
    /\ HallFrame

\* self.last_pulse_time = current_time
PulseStamp(t) ==
    /\ pc[t] = "pulse_stamp"
    /\ hall_sensor' = [hall_sensor EXCEPT !.last_pulse_time =
                                              frame[t].current_time]
    /\ hall_log' = [hall_log EXCEPT !.stamped = @ + 1]
    /\ pc' = [pc EXCEPT ![t] = "pulse_load"]
    /\ UNCHANGED << hall_lock, frame >>
    /\ HallFrame

\* self.pulse_count += 1: the read of the field
PulseLoad(t) ==
    /\ pc[t] = "pulse_load"
    /\ frame' = [frame EXCEPT ![t] = [op |-> "_pulse_callback",
                                      count |-> hall_sensor.pulse_count]]
    /\ pc' = [pc EXCEPT ![t] = "pulse_store"]
    /\ UNCHANGED << hall_sensor, hall_lock, hall_log >>
    /\ HallFrame

\* self.pulse_count += 1: the write of the field
PulseStore(t) ==
    /\ pc[t] = "pulse_store"
    /\ hall_sensor' = [hall_sensor EXCEPT !.pulse_count = frame[t].count + 1]
    /\ frame' = [frame EXCEPT ![t] = [op |-> "_pulse_callback"]]
    /\ pc' = [pc EXCEPT ![t] = "pulse_release"]
    /\ UNCHANGED << hall_lock, hall_log >>
    /\ HallFrame

\* _pulse_callback leaves "with self.lock" and returns
PulseRelease(t) ==
    /\ pc[t] = "pulse_release"
    /\ hall_lock' = "free"
    /\ hall_log' = [hall_log EXCEPT !.completed = @ + 1]
    /\ frame' = [frame EXCEPT ![t] = NoFrame]
    /\ pc' = [pc EXCEPT ![t] = "idle"]
    /\ UNCHANGED hall_sensor
    /\ HallFrame

\* HallSensor.get_speed_kmh or HallSensor.get_pulse_count enters
\* "with self.lock"
ReadAcquire(t) ==
    /\ t \in PollThreads
    /\ pc[t] = "idle"
    /\ hall_log.reads < MaxPolls
    /\ CanAcquire(hall_lock)
    /\ hall_lock' = t
    /\ \E op \in {"get_speed_kmh", "get_pulse_count"} :
          frame' = [frame EXCEPT ![t] = [op |-> op]]
    /\ pc' = [pc EXCEPT ![t] = "read_field"]
    /\ hall_log' = [hall_log EXCEPT !.reads = @ + 1]
    /\ UNCHANGED hall_sensor
    /\ HallFrame

\* the read of self.speed_kmh or of self.pulse_count; stamped is the number
\* of pulses whose time the reader can find in last_pulse_time
ReadField(t) ==
    /\ pc[t] = "read_field"
    /\ frame' = [frame EXCEPT ![t] =
                    [ op |-> frame[t].op,
                      result |-> IF frame[t].op = "get_speed_kmh"
                                 THEN hall_sensor.speed_kmh
                                 ELSE hall_sensor.pulse_count,
                      pulse_count |-> hall_sensor.pulse_count,
                      stamped |-> hall_log.stamped ]]
    /\ pc' = [pc EXCEPT ![t] = "read_release"]
    /\ UNCHANGED << hall_sensor, hall_lock, hall_log >>
    /\ HallFrame

\* the reader leaves "with self.lock" and returns
ReadRelease(t) ==
    /\ pc[t] = "read_release"
    /\ hall_lock' = "free"
    /\ frame' = [frame EXCEPT ![t] = NoFrame]
    /\ pc' = [pc EXCEPT ![t] = "idle"]
    /\ UNCHANGED << hall_sensor, hall_log >>
    /\ HallFrame

\* what a step of a StatisticsTracker method leaves alone
TrackerFrame ==
    UNCHANGED << now, call, ret, initial_max, max_passed, channelVars,
                 managerVars, hall_lock, hall_log >>

\* the thread t moves to the label l
Goto(t, l) == pc' = [pc EXCEPT ![t] = l]

\* faulty variant: the method does not take the lock
Enter_without_lock(t, f, l) ==
    /\ pc[t] = "idle"
    /\ tracker_log.calls < MaxCalls
    /\ lock' = t
    /\ frame' = [frame EXCEPT ![t] = f]
    /\ Goto(t, l)
    /\ UNCHANGED << statistics, file, write_failed >>
    /\ TrackerFrame

\* a tracker method enters "with self.lock" with the frame f
Enter(t, f, l) ==
    /\ pc[t] = "idle"
    /\ tracker_log.calls < MaxCalls
    /\ CanAcquire(lock)
    /\ lock' = t
    /\ frame' = [frame EXCEPT ![t] = f]
    /\ Goto(t, l)
    /\ UNCHANGED << statistics, file, write_failed >>
    /\ TrackerFrame

BeginUpdateSpeed(t, V) ==
    \E v \in V :
        /\ Enter(t, [op |-> "update_speed", speed_kmh |-> v], "us_compare")
        /\ tracker_log' = [tracker_log EXCEPT !.calls = @ + 1,
                                              !.speed = Max(@, v)]

\* if speed_kmh > self.max_speed_kmh
SpeedCompare(t) ==
    /\ pc[t] = "us_compare"
    /\ IF frame[t].speed_kmh > statistics.max_speed_kmh
       THEN Goto(t, "us_store")
       ELSE Goto(t, "release")
    /\ UNCHANGED << statistics, file, write_failed, frame, lock, tracker_log >>
    /\ TrackerFrame

\* self.max_speed_kmh = speed_kmh
SpeedStore(t) ==
    /\ pc[t] = "us_store"
    /\ statistics' = [statistics EXCEPT !.max_speed_kmh = frame[t].speed_kmh]
    /\ Goto(t, "us_save")
    /\ UNCHANGED << file, write_failed, frame, lock, tracker_log >>
    /\ TrackerFrame

BeginUpdateDistance(t, V) ==
    \E v \in V :
        /\ Enter(t, [op |-> "update_distance", current_speed_kmh |-> v],
                 "ud_test")
        /\ tracker_log' = [tracker_log EXCEPT !.calls = @ + 1]

\* current_time = time.time(); time_diff = current_time - last_update_time;
\* if time_diff > 0 and current_speed_kmh > 0
DistanceTest(t) ==
    /\ pc[t] = "ud_test"
    /\ LET current_time == now
           time_diff == current_time - statistics.last_update_time
       IN  /\ frame' = [frame EXCEPT ![t] =
                           [ op |-> "update_distance",
                             current_speed_kmh |-> frame[t].current_speed_kmh,
                             current_time |-> current_time,
                             time_diff |-> time_diff ]]
           /\ IF time_diff > 0 /\ frame[t].current_speed_kmh > 0
              THEN Goto(t, "ud_add")
              ELSE Goto(t, "ud_stamp")
    /\ UNCHANGED << statistics, file, write_failed, lock, tracker_log >>
    /\ TrackerFrame

\* self.total_distance_km += distance_km
DistanceAdd(t) ==
    /\ pc[t] = "ud_add"
    /\ LET distance_km == frame[t].current_speed_kmh * frame[t].time_diff
       IN  statistics' = [statistics EXCEPT !.total_distance_km =
                                                @ + distance_km]
    /\ Goto(t, "ud_save")
    /\ UNCHANGED << file, write_failed, frame, lock, tracker_log >>
    /\ TrackerFrame

\* self.last_update_time = current_time
DistanceStamp(t) ==
    /\ pc[t] = "ud_stamp"
    /\ statistics' = [statistics EXCEPT !.last_update_time =
                                            frame[t].current_time]
    /\ Goto(t, "release")
    /\ UNCHANGED << file, write_failed, frame, lock, tracker_log >>
    /\ TrackerFrame

BeginUpdateAcceleration(t, A) ==
    \E a \in A :
        /\ Enter(t, [op |-> "update_acceleration", a |-> a], "ua_lateral")
        /\ tracker_log' =
               [tracker_log EXCEPT
                   !.calls = @ + 1,
                   !.cornering = Max(@, Sqrt(a[1] * a[1] + a[2] * a[2])),
                   !.braking = Max(@, IF a[3] < OneG THEN OneG - a[3] ELSE 0)]

\* lateral_force = math.sqrt(..); if lateral_force > self.max_cornering_force_g
LateralCompare(t) ==
    /\ pc[t] = "ua_lateral"
    /\ LET a == frame[t].a
           lateral_force == Sqrt(a[1] * a[1] + a[2] * a[2])
       IN  IF lateral_force > statistics.max_cornering_force_g
           THEN /\ Goto(t, "ua_store_c")
                /\ frame' = [frame EXCEPT ![t] =
                                [ op |-> "update_acceleration", a |-> a,
                                  lateral_force |-> lateral_force ]]
           ELSE /\ Goto(t, "ua_braking")
                /\ UNCHANGED frame
    /\ UNCHANGED << statistics, file, write_failed, lock, tracker_log >>
    /\ TrackerFrame

\* self.max_cornering_force_g = lateral_force
LateralStore(t) ==
    /\ pc[t] = "ua_store_c"
    /\ statistics' = [statistics EXCEPT !.max_cornering_force_g =
                                            frame[t].lateral_force]
    /\ Goto(t, "ua_save_c")
    /\ UNCHANGED << file, write_failed, frame, lock, tracker_log >>
    /\ TrackerFrame

\* braking_force = abs(min(0, az_g - 1.0));
\* if braking_force > self.max_braking_force_g
BrakingCompare(t) ==
    /\ pc[t] = "ua_braking"
    /\ LET a == frame[t].a
           braking_force == Abs(Min(0, a[3] - OneG))
       IN  IF braking_force > statistics.max_braking_force_g
           THEN /\ Goto(t, "ua_store_b")
                /\ frame' = [frame EXCEPT ![t] =
                                [ op |-> "update_acceleration", a |-> a,
                                  braking_force |-> braking_force ]]
           ELSE /\ Goto(t, "release")
                /\ UNCHANGED frame
    /\ UNCHANGED << statistics, file, write_failed, lock, tracker_log >>
    /\ TrackerFrame

\* self.max_braking_force_g = braking_force
BrakingStore(t) ==
    /\ pc[t] = "ua_store_b"
    /\ statistics' = [statistics EXCEPT !.max_braking_force_g =
                                            frame[t].braking_force]
    /\ Goto(t, "ua_save_b")
    /\ UNCHANGED << file, write_failed, frame, lock, tracker_log >>
    /\ TrackerFrame

\* faulty variant: get_statistics reads the fields without the lock
BeginGetStatistics_without_lock(t) ==
    /\ pc[t] = "idle"
    /\ tracker_log.calls < MaxCalls
    /\ frame' = [frame EXCEPT ![t] = [op |-> "get_statistics",
                                      result |-> << >>]]
    /\ Goto(t, "gs_read")
    /\ tracker_log' = [tracker_log EXCEPT !.calls = @ + 1]
    /\ UNCHANGED << statistics, file, write_failed, lock >>
    /\ TrackerFrame

BeginGetStatistics(t) ==
    /\ Enter(t, [op |-> "get_statistics", result |-> << >>], "gs_read")
    /\ tracker_log' = [tracker_log EXCEPT !.calls = @ + 1]

\* the dict display of get_statistics reads the four statistics in turn
ReadStatistic(t) ==
    /\ pc[t] = "gs_read"
    /\ LET k == Len(frame[t].result) + 1
       IN  /\ frame' = [frame EXCEPT ![t].result =
                           Append(@, Persisted(statistics)[k])]
           /\ IF k = 4 THEN Goto(t, "gs_duration") ELSE UNCHANGED pc
    /\ UNCHANGED << statistics, file, write_failed, lock, tracker_log >>
    /\ TrackerFrame

\* (time.time() - self.session_start_time) / 3600.0 completes the dict
ReadDuration(t) ==
    /\ pc[t] = "gs_duration"
    /\ frame' = [frame EXCEPT ![t].result =
                    Append(@, now - statistics.session_start_time)]
    /\ Goto(t, "release")
    /\ UNCHANGED << statistics, file, write_failed, lock, tracker_log >>
    /\ TrackerFrame

\* the fields reset_statistics assigns, in the order of its statements
ResetFields ==
    << "max_speed_kmh", "total_distance_km", "max_cornering_force_g",
       "max_braking_force_g", "session_start_time", "last_update_time" >>

BeginResetStatistics(t) ==
    /\ Enter(t, [op |-> "reset_statistics", n |-> 1], "rs_assign")
    /\ tracker_log' = [tracker_log EXCEPT !.calls = @ + 1,
                                          !.resets = @ + 1]

\* one assignment of reset_statistics: 0.0 to a statistic, time.time() to
\* session_start_time and to last_update_time
ResetField(t) ==
    /\ pc[t] = "rs_assign"
    /\ LET n == frame[t].n
       IN  /\ statistics' = [statistics EXCEPT ![ResetFields[n]] =
                                IF n <= 4 THEN 0 ELSE now]
           /\ frame' = [frame EXCEPT ![t].n = n + 1]
           /\ IF n = Len(ResetFields)
              THEN Goto(t, "rs_save") ELSE UNCHANGED pc
    /\ UNCHANGED << file, write_failed, lock, tracker_log >>
    /\ TrackerFrame

\* where a method goes on after its call of _save_data
AfterSave ==
    [ us_save |-> "release", ud_save |-> "ud_stamp",
      ua_save_c |-> "ua_braking", ua_save_b |-> "release",
      rs_save |-> "release" ]

\* faulty variant: a failed write raises out of the method, which releases
\* the lock and does nothing more
SaveData_propagates(t, W) ==
    \E w \in W :
        /\ pc[t] \in DOMAIN AfterSave
        /\ file' = _save_data(statistics, file, now, w)
        /\ write_failed' = (write_failed \/ w # "ok")
        /\ tracker_log' = [tracker_log EXCEPT !.last_write = w]
        /\ Goto(t, IF w = "ok" THEN AfterSave[pc[t]] ELSE "release")
        /\ UNCHANGED << statistics, frame, lock >>
        /\ TrackerFrame

\* self._save_data(), whose write ends as one of W; it returns in every case
SaveData(t, W) ==
    \E w \in W :
        /\ pc[t] \in DOMAIN AfterSave
        /\ file' = _save_data(statistics, file, now, w)
        /\ write_failed' = (write_failed \/ w # "ok")
        /\ tracker_log' = [tracker_log EXCEPT !.last_write = w]
        /\ Goto(t, AfterSave[pc[t]])
        /\ UNCHANGED << statistics, frame, lock >>
        /\ TrackerFrame

\* the method leaves "with self.lock" and returns
Release(t) ==
    /\ pc[t] = "release"
    /\ lock' = "free"
    /\ frame' = [frame EXCEPT ![t] = NoFrame]
    /\ Goto(t, "idle")
    /\ UNCHANGED << statistics, file, write_failed, tracker_log >>
    /\ TrackerFrame

(***************************************************************************)
(* The two locks.  A call is a sequence of sections, each section one      *)
(* "with self.lock" block of the HallSensor or of the StatisticsTracker:   *)
(* the thread waits for the section's lock, takes it when it is free,      *)
(* runs the block and gives the lock back.  The blocks are single steps    *)
(* here; SpecHall and SpecThreads take them apart.  The clock of these     *)
(* threads advances where the pulse loop sleeps.                           *)
(***************************************************************************)
\* the thread of HallSensor._mock_pulses, the thread that polls the speed
\* and the thread that serves the statistics
MockThreads == { "t1" }
CallerThreads == { "t2", "t3" }

\* the calls of the coordinator a thread makes
CallsOf(t) ==
    IF t = "t2" THEN { "get_speed_kmh" }
                ELSE { "get_statistics", "reset_statistics" }

\* the "with self.lock" blocks a call goes through, in order
Sections ==
    [ _pulse_callback  |-> << "pulse" >>,
      get_speed_kmh    |-> << "read_speed", "update_speed", "update_distance" >>,
      get_statistics   |-> << "get_statistics" >>,
      reset_statistics |-> << "reset_statistics" >> ]

\* the sections inside "with self.lock" of the HallSensor
HallSections == { "pulse", "read_speed" }

\* the section the thread t is waiting for or running
Section(t) == Sections[frame[t].op][frame[t].at]

\* what a step of these threads leaves alone
LocksFrame ==
    UNCHANGED << call, ret, initial_max, max_passed, HAS_GPIO, HAS_I2C,
                 barometer, thermometer, accelerometer, managerVars,
                 hall_log, tracker_log >>

\* the thread t starts the call op and waits for the lock of its first block
StartCall(t, op) ==
    /\ pc[t] = "idle"
    /\ frame' = [frame EXCEPT ![t] = [op |-> op, at |-> 1, speed |-> 0]]
    /\ pc' = [pc EXCEPT ![t] = "lock_wait"]
    /\ UNCHANGED << hall_sensor, hall_lock, lock, statistics, file,
                    write_failed >>
    /\ LocksFrame

\* faulty variant: the loop calls back without sleeping
MockSleep_no_delay(t) ==
    /\ t \in MockThreads
    /\ ~HAS_GPIO
    /\ hall_sensor.pulse_count < MaxMockPulses
    /\ StartCall(t, "_pulse_callback")
    /\ now' = now

\* _mock_pulses: time.sleep(0.1) returns, a tick of the clock later, and
\* the loop calls _pulse_callback
MockSleep(t) ==
    /\ t \in MockThreads
    /\ ~HAS_GPIO
    /\ hall_sensor.pulse_count < MaxMockPulses
    /\ StartCall(t, "_pulse_callback")
    /\ now' = now + 1

\* a polling thread calls SensorManager.get_speed_kmh, get_statistics or
\* reset_statistics
CallManager(t) ==
    /\ t \in CallerThreads
    /\ \E op \in CallsOf(t) : StartCall(t, op)
    /\ now' = now

\* "with self.lock": the waiting thread takes the lock of its section
TakeLock(t) ==
    /\ pc[t] = "lock_wait"
    /\ IF Section(t) \in HallSections
       THEN /\ CanAcquire(hall_lock)
            /\ hall_lock' = t
            /\ lock' = lock
       ELSE /\ CanAcquire(lock)
            /\ lock' = t
            /\ hall_lock' = hall_lock
    /\ pc' = [pc EXCEPT ![t] = "lock_held"]
    /\ UNCHANGED << now, frame, hall_sensor, statistics, file, write_failed >>
    /\ LocksFrame

\* the thread t goes on to the next section of its call, or returns
NextSection(t, speed) ==
    IF frame[t].at < Len(Sections[frame[t].op])
    THEN /\ frame' = [frame EXCEPT ![t] = [op |-> frame[t].op,
                                           at |-> frame[t].at + 1,
                                           speed |-> speed]]
         /\ pc' = [pc EXCEPT ![t] = "lock_wait"]
    ELSE /\ frame' = [frame EXCEPT ![t] = NoFrame]
         /\ pc' = [pc EXCEPT ![t] = "idle"]

\* the block of a HallSensor method, which leaves the HallSensor as h, and
\* the end of its "with self.lock"
HallSection(t, h, speed) ==
    /\ pc[t] = "lock_held"
    /\ hall_sensor' = h
    /\ hall_lock' = "free"
    /\ NextSection(t, speed)
    /\ UNCHANGED << now, lock, statistics, file, write_failed >>
    /\ LocksFrame

\* faulty variant: a failed write leaves "with self.lock" with the lock held
TrackerSection_held_on_error(t, S) ==
    /\ pc[t] = "lock_held"
    /\ Result(S)
    /\ lock' = IF Failed(S) THEN lock ELSE "free"
    /\ NextSection(t, frame[t].speed)
    /\ UNCHANGED << now, hall_lock, hall_sensor >>
    /\ LocksFrame

\* the block of a StatisticsTracker method, which leaves the tracker as S,
\* and the end of its "with self.lock"
TrackerSection(t, S) ==
    /\ pc[t] = "lock_held"
    /\ Result(S)
    /\ lock' = "free"
    /\ NextSection(t, frame[t].speed)
    /\ UNCHANGED << now, hall_lock, hall_sensor >>
    /\ LocksFrame

\* HallSensor._pulse_callback under the lock
SectionPulse(t) ==
    /\ pc[t] = "lock_held"
    /\ Section(t) = "pulse"
    /\ HallSection(t, _pulse_callback(hall_sensor, now), 0)

\* HallSensor.get_speed_kmh under the lock; the coordinator adds the offset
\* and clamps
SectionReadSpeed(t) ==
    /\ pc[t] = "lock_held"
    /\ Section(t) = "read_speed"
    /\ HallSection(t, hall_sensor,
                   Max(0, HallSensor_get_speed_kmh(hall_sensor)
                          + speed_offset))

\* StatisticsTracker.update_speed under the lock
SectionUpdateSpeed(t, W) ==
    /\ pc[t] = "lock_held"
    /\ Section(t) = "update_speed"
    /\ \E w \in W :
          TrackerSection(t, update_speed(Cur, frame[t].speed, now, w))

\* StatisticsTracker.update_distance under the lock
SectionUpdateDistance(t, W) ==
    /\ pc[t] = "lock_held"
    /\ Section(t) = "update_distance"
    /\ \E w \in W :
          TrackerSection(t, update_distance(Cur, frame[t].speed, now, w))

\* StatisticsTracker.get_statistics under the lock
SectionGetStatistics(t) ==
    /\ pc[t] = "lock_held"
    /\ Section(t) = "get_statistics"
    /\ TrackerSection(t, Cur)

\* StatisticsTracker.reset_statistics under the lock
SectionResetStatistics(t, W) ==
    /\ pc[t] = "lock_held"
    /\ Section(t) = "reset_statistics"
    /\ \E w \in W : TrackerSection(t, reset_statistics(Cur, now, w))

\* the thread t runs the block it holds the lock for
RunSection(t) ==
    \/ SectionPulse(t)
    \/ SectionReadSpeed(t)
    \/ SectionUpdateSpeed(t, {"ok", "error"})
    \/ SectionUpdateDistance(t, {"ok", "error"})
    \/ SectionGetStatistics(t)
    \/ SectionResetStatistics(t, {"ok", "error"})

(***************************************************************************)
(* A crash.  The process stops between two calls, or inside _save_data     *)
(* of a mutating call; a new process then constructs a tracker on the      *)
(* file the old one left.  Where _save_data stops decides the file: before *)
(* open() it is the old file ("error"), between open(file, 'w'), which     *)
(* truncates, and the end of json.dump it is a fragment ("partial"), after *)
(* the block it is the new file ("ok").                                    *)
(***************************************************************************)
\* the mutating calls with one _save_data, on the speeds V
CrashCalls(V) ==
    { [op |-> "update_speed", speed |-> v] : v \in V } \cup
    { [op |-> "update_distance", speed |-> v] : v \in V } \cup
    { [op |-> "reset_statistics", speed |-> 0] }

\* the tracker as the call c leaves it when its write ends as w
AfterCall(c, w) ==
    IF c.op = "update_speed" THEN update_speed(Cur, c.speed, now, w)
    ELSE IF c.op = "update_distance"
         THEN update_distance(Cur, c.speed, now, w)
         ELSE reset_statistics(Cur, now, w)

\* the process stops in the _save_data of a call; StatisticsTracker.__init__
\* of the next process loads what is left
CrashInSave(V) ==
    \E c \in CrashCalls(V), w \in WriteOutcomes :
        LET S == AfterCall(c, w)
        IN  /\ Wrote(S) # "none"
            /\ file' = S.file
            /\ statistics' = StatisticsTracker(S.file, now)
            /\ call' = [op |-> "__init__", speed |-> c.speed,
                        accel |-> NoAccel, t |-> now, wrote |-> w,
                        stopped_in |-> c.op,
                        before |-> Persisted(statistics),
                        after |-> Persisted(S.stats)]
            /\ ret' = NoRet
            /\ initial_max' = statistics'.max_speed_kmh
            /\ max_passed' = {}
            /\ write_failed' = FALSE
            /\ UNCHANGED << now, channelVars, managerVars, threadVars >>

(***************************************************************************)
(* Spec: one session of a tracker whose writes all succeed.                *)
(***************************************************************************)
Init ==
    /\ TrackerInit(InitialFiles)
    /\ SensorManagerInit(NoHardware)
    /\ ThreadsInit(NoLog)

Next ==
    \/ Tick(MaxTime)
    \/ UpdateSpeed(Speeds, {"ok"})
    \/ UpdateDistance(SignedSpeeds, {"ok"})
    \/ UpdateAcceleration(AccelInputs, {"ok"})
    \/ GetStatistics
    \/ ResetStatistics({"ok"})

Spec == Init /\ [][Next]_vars

(***************************************************************************)
(* SpecFile: the tracker and its file over restarts of the process, with   *)
(* writes that can fail.                                                   *)
(***************************************************************************)
NextFile ==
    \/ Tick(MaxFileTime)
    \/ Restart
    \/ UpdateSpeed(FileSpeeds, WriteOutcomes)
    \/ UpdateDistance(FileSpeeds, WriteOutcomes)
    \/ UpdateAcceleration(FileAccels, WriteOutcomes)
    \/ GetStatistics
    \/ ResetStatistics(WriteOutcomes)

SpecFile == Init /\ [][NextFile]_vars

(***************************************************************************)
(* SpecPoll: a SensorManager polled through its accessors.                 *)
(***************************************************************************)
InitPoll ==
    /\ TrackerInit({MissingFile})
    /\ \E hw \in {NoHardware, AllHardware} : SensorManagerInit(hw)
    /\ ThreadsInit(NoLog)

NextPoll ==
    \/ Tick(MaxPollTime)
    \/ GetSpeedKmh({"ok"})
    \/ GetAltitudeM
    \/ GetTemperatureC
    \/ GetAccelerationG(PollAccels, {"ok"})
    \/ GetSensorStatus

SpecPoll == InitPoll /\ [][NextPoll]_vars

(***************************************************************************)
(* SpecCal: a SensorManager with a turning wheel that is calibrated and    *)
(* polled, MaxPolls accessor and calibrate calls at most.                  *)
(***************************************************************************)
InitCal ==
    /\ TrackerInit({MissingFile})
    /\ \E hw \in {NoHardware, AllHardware} : SensorManagerInit(hw)
    /\ ThreadsInit(NoLog)

NextCal ==
    \/ Tick(MaxCalTime)
    \/ Pulse
    \/ CalibrateSpeed(KnownSpeeds)
    \/ CalibrateAltitude(KnownAltitudes)
    \/ CalibrateTemperature(KnownTemperatures)
    \/ GetSpeedKmh({"ok"})
    \/ GetAltitudeM
    \/ GetTemperatureC

SpecCal == InitCal /\ [][NextCal]_vars

(***************************************************************************)
(* SpecSource: the data source of a SensorManager over the hardware the    *)
(* process can find when it starts.                                        *)
(***************************************************************************)
\* the libraries import or not, and with the I2C libraries the drivers
\* initialise or not
Hardware ==
    { NoHardware, AllHardware,
      [gpio |-> TRUE, i2c |-> FALSE, drivers |-> FALSE],
      [gpio |-> FALSE, i2c |-> TRUE, drivers |-> TRUE],
      [gpio |-> TRUE, i2c |-> TRUE, drivers |-> FALSE] }

InitSource ==
    /\ TrackerInit({MissingFile})
    /\ \E hw \in Hardware : SensorManagerInit(hw)
    /\ ThreadsInit(NoLog)

NextSource ==
    \/ Tick(MaxPollTime)
    \/ GetAltitudeM
    \/ GetSensorStatus
    \/ GetDataSource

SpecSource == InitSource /\ [][NextSource]_vars

(***************************************************************************)
(* SpecHall: the HallSensor with two threads that deliver pulses and one   *)
(* that reads, MaxPulses pulses and MaxPolls reads at most.                *)
(***************************************************************************)
InitHall ==
    /\ TrackerInit({MissingFile})
    /\ SensorManagerInit(NoHardware)
    /\ ThreadsInit(NoLog)

NextHall ==
    \/ Tick(MaxCalTime)
    \/ \E t \in Threads :
          \/ PulseAcquire(t)
          \/ PulseSpeed(t)
          \/ PulseStamp(t)
          \/ PulseLoad(t)
          \/ PulseStore(t)
          \/ PulseRelease(t)
          \/ ReadAcquire(t)
          \/ ReadField(t)
          \/ ReadRelease(t)

SpecHall == InitHall /\ [][NextHall]_vars

(***************************************************************************)
(* SpecThreads: a StatisticsTracker called from three threads, MaxCalls    *)
(* calls at most, with writes that can fail.                               *)
(***************************************************************************)
InitThreads ==
    /\ TrackerInit(InitialFiles)
    /\ SensorManagerInit(NoHardware)
    /\ ThreadsInit(NoCalls(statistics))

NextThreads ==
    \/ Tick(MaxFileTime)
    \/ \E t \in Threads :
          \/ BeginUpdateSpeed(t, ThreadSpeeds)
          \/ SpeedCompare(t)
          \/ SpeedStore(t)
          \/ BeginUpdateDistance(t, {MaxSpeed})
          \/ DistanceTest(t)
          \/ DistanceAdd(t)
          \/ DistanceStamp(t)
          \/ BeginUpdateAcceleration(t, FileAccels)
          \/ LateralCompare(t)
          \/ LateralStore(t)
          \/ BrakingCompare(t)
          \/ BrakingStore(t)
          \/ BeginGetStatistics(t)
          \/ ReadStatistic(t)
          \/ ReadDuration(t)
          \/ BeginResetStatistics(t)
          \/ ResetField(t)
          \/ SaveData(t, {"ok", "error"})
          \/ Release(t)

SpecThreads == InitThreads /\ [][NextThreads]_vars

(***************************************************************************)
(* SpecFeed: every call of a SensorManager without hardware and with a     *)
(* wheel at rest, MaxPolls accessor and calibrate calls at most.           *)
(***************************************************************************)
InitFeed ==
    /\ TrackerInit({MissingFile})
    /\ SensorManagerInit(NoHardware)
    /\ ThreadsInit(NoLog)

NextFeed ==
    \/ Tick(MaxCalTime)
    \/ CalibrateSpeed(KnownSpeeds)
    \/ CalibrateAltitude(KnownAltitudes)
    \/ CalibrateTemperature(KnownTemperatures)
    \/ GetSpeedKmh({"ok"})
    \/ GetAltitudeM
    \/ GetTemperatureC
    \/ GetAccelerationG(PollAccels, {"ok"})
    \/ GetSensorStatus
    \/ GetDataSource
    \/ ResetStatistics({"ok"})

SpecFeed == InitFeed /\ [][NextFeed]_vars

(***************************************************************************)
(* SpecMax: speed reads of a calibrated coordinator, between resets.       *)
(***************************************************************************)
NextMax ==
    \/ Tick(MaxCalTime)
    \/ Pulse
    \/ CalibrateSpeed(KnownSpeeds)
    \/ GetSpeedKmh({"ok"})
    \/ GetStatistics
    \/ ResetStatistics({"ok"})

SpecMax == InitFeed /\ [][NextMax]_vars

(***************************************************************************)
(* SpecLocks: the simulated pulse loop and two polling threads on the two  *)
(* locks, MaxMockPulses pulses long.  FairLocks adds the scheduling: a      *)
(* thread that can run does, and a thread waiting for a lock that comes    *)
(* free again and again gets it.                                           *)
(***************************************************************************)
InitLocks ==
    /\ TrackerInit({MissingFile})
    /\ SensorManagerInit(NoHardware)
    /\ ThreadsInit(NoLog)

NextLocks ==
    \E t \in Threads :
        \/ MockSleep(t)
        \/ CallManager(t)
        \/ TakeLock(t)
        \/ SectionPulse(t)
        \/ SectionReadSpeed(t)
        \/ SectionUpdateSpeed(t, {"ok", "error"})
        \/ SectionUpdateDistance(t, {"ok", "error"})
        \/ SectionGetStatistics(t)
        \/ SectionResetStatistics(t, {"ok", "error"})

SpecLocks == InitLocks /\ [][NextLocks]_vars

FairLocks ==
    /\ SpecLocks
    /\ \A t \in MockThreads : WF_vars(MockSleep(t))
    /\ \A t \in Threads : SF_vars(TakeLock(t)) /\ WF_vars(RunSection(t))

(***************************************************************************)
(* SpecCrash: a tracker whose writes succeed unless the process stops in   *)
(* them, and the trackers constructed on its file after each stop.         *)
(***************************************************************************)
NextCrash ==
    \/ Tick(MaxFileTime)
    \/ Restart
    \/ CrashInSave(FileSpeeds)
    \/ UpdateSpeed(FileSpeeds, {"ok"})
    \/ UpdateDistance(FileSpeeds, {"ok"})
    \/ UpdateAcceleration(FileAccels, {"ok"})
    \/ ResetStatistics({"ok"})

SpecCrash == Init /\ [][NextCrash]_vars

(***************************************************************************)
(* Properties of the tracker within one session (Spec).                    *)
(***************************************************************************)
Largest(V) == CHOOSE m \in V : \A x \in V : x <= m

\* the step is a call of op (time stands still during a call)
Calls(op) == call'.op = op /\ now' = now

\* C1 as stated: after every update_speed call max_speed_kmh is the largest
\* value passed to update_speed so far, and it has not decreased.
C1_MaxIsLargestPassed ==
    [][ Calls("update_speed") =>
          /\ statistics'.max_speed_kmh >= statistics.max_speed_kmh
          /\ statistics'.max_speed_kmh = Largest(max_passed') ]_vars

\* C1 amended: after every update_speed call max_speed_kmh is the larger of
\* the value it had when the session began (0, or the value loaded from the
\* file) and the largest value passed to update_speed so far, and it has not
\* decreased.
C1_MaxIsLargestPassedOrInitial ==
    [][ Calls("update_speed") =>
          /\ statistics'.max_speed_kmh >= statistics.max_speed_kmh
          /\ statistics'.max_speed_kmh =
                 Largest(max_passed' \cup {initial_max'}) ]_vars

C1_Witness ==
    /\ call.op = "update_speed"
    /\ call.speed = 1
    /\ max_passed = {1}
    /\ initial_max = 2
    /\ statistics.max_speed_kmh = 2

ZeroStatistics ==
    [ max_speed_kmh |-> 0, total_distance_km |-> 0,
      max_cornering_force_g |-> 0, max_braking_force_g |-> 0,
      session_duration_hours |-> 0 ]

\* C2: a get_statistics call made at the instant of a reset_statistics call
\* returns 0 in all four statistics and a session duration of 0.
C2_ResetYieldsZero ==
    [][ ( /\ call.op = "reset_statistics"
          /\ call.t = now
          /\ Calls("get_statistics") ) => ret'.value = ZeroStatistics ]_vars

C2_Witness ==
    /\ call.op = "get_statistics"
    /\ ret.value = ZeroStatistics
    /\ statistics.session_start_time > StartTime
    /\ file.state = "json"
    /\ file.data.last_updated = statistics.session_start_time

\* C3: an update_distance(v) call made dt > 0 seconds after an
\* update_distance(v) call with the same v > 0 adds v * dt (in 1/3600 km) to
\* total_distance_km.
C3_ConstantSpeedDistance ==
    [][ ( /\ call.op = "update_distance"
          /\ Calls("update_distance")
          /\ call.speed > 0
          /\ call'.speed = call.speed
          /\ now' > call.t )
        => statistics'.total_distance_km - statistics.total_distance_km
               = call.speed * (now' - call.t) ]_vars

C3_Witness ==
    /\ call.op = "update_distance"
    /\ call.speed = 2
    /\ call.t = StartTime + 2
    /\ statistics.session_start_time = StartTime
    /\ statistics.total_distance_km = 4

\* C4: update_distance(0) leaves total_distance_km as it is and sets the last
\* update time to the time of the call; an update_distance(v), v > 0, that
\* follows it adds v times the time since the zero-speed call.
C4_ZeroSpeedAdvancesTime ==
    [][ /\ ( Calls("update_distance") /\ call'.speed = 0 )
           => /\ statistics'.total_distance_km = statistics.total_distance_km
              /\ statistics'.last_update_time = now'
        /\ ( /\ call.op = "update_distance"
             /\ call.speed = 0
             /\ Calls("update_distance")
             /\ call'.speed > 0 )
           => statistics'.total_distance_km - statistics.total_distance_km
                  = call'.speed * (now' - call.t) ]_vars

\* the tracker began at StartTime with no distance, stood still until
\* StartTime + 1 and has covered one second at speed 1 since
C4_Witness ==
    /\ call.op = "update_distance"
    /\ call.speed = 1
    /\ call.t = StartTime + 2
    /\ statistics.session_start_time = StartTime
    /\ statistics.last_update_time = StartTime + 2
    /\ statistics.total_distance_km = 1

\* C5: update_acceleration(ax, ay, az) leaves max_cornering_force_g the larger
\* of its previous value and sqrt(ax^2 + ay^2), and max_braking_force_g the
\* larger of its previous value and the deficit of az below 1 g; az >= 1 g
\* leaves max_braking_force_g as it is; on a tracker with zero maxima
\* (0.03, 0.04, 0.95) gives 0.05 and 0.05.
C5_AccelerationMaxima ==
    [][ Calls("update_acceleration") =>
          LET a == call'.accel
              lateral == CHOOSE r \in 0 .. 20 : r * r = a[1] * a[1] + a[2] * a[2]
              deficit == IF a[3] < 100 THEN 100 - a[3] ELSE 0
              old == statistics
              new == statistics'
          IN  /\ new.max_cornering_force_g =
                     IF lateral > old.max_cornering_force_g
                     THEN lateral ELSE old.max_cornering_force_g
              /\ new.max_braking_force_g =
                     IF deficit > old.max_braking_force_g
                     THEN deficit ELSE old.max_braking_force_g
              /\ a[3] >= 100 =>
                     new.max_braking_force_g = old.max_braking_force_g
              /\ ( /\ a = <<3, 4, 95>>
                   /\ old.max_cornering_force_g = 0
                   /\ old.max_braking_force_g = 0 )
                 => /\ new.max_cornering_force_g = 5
                    /\ new.max_braking_force_g = 5 ]_vars

C5_Witness ==
    /\ call.op = "update_acceleration"
    /\ call.accel = <<3, 4, 95>>
    /\ statistics.max_cornering_force_g = 5
    /\ statistics.max_braking_force_g = 5
    /\ statistics.max_speed_kmh = 0
    /\ statistics.total_distance_km = 0

\* C6: no call other than reset_statistics (and the construction of a new
\* tracker) decreases any of the four statistics.
C6_NoDecreaseWithinSession ==
    [][ ( now' = now /\ call'.op \notin {"reset_statistics", "__init__"} ) =>
          \A i \in 1 .. 4 : Persisted(statistics')[i] >= Persisted(statistics)[i]
      ]_vars

C6_Witness ==
    /\ call.op = "get_statistics"
    /\ ret.value.max_speed_kmh = MaxSpeed
    /\ ret.value.total_distance_km > 3
    /\ ret.value.max_cornering_force_g = 10
    /\ ret.value.max_braking_force_g = 10
    /\ statistics.session_start_time = StartTime

(***************************************************************************)
(* Properties of the tracker and its file (SpecFile).                      *)
(***************************************************************************)
Mutators ==
    { "update_speed", "update_distance", "update_acceleration",
      "reset_statistics" }

FileHolds(f, st) ==
    /\ f.state = "json"
    /\ \A k \in Keys : k \in DOMAIN f.data /\ f.data[k] = st[k]

\* C7: a tracker constructed on the file of a tracker none of whose writes
\* failed has that tracker's four statistics, and its session starts at its
\* own construction time.
C7_RoundTrip ==
    [][ ( Calls("__init__") /\ ~write_failed ) =>
          /\ Persisted(statistics') = Persisted(statistics)
          /\ statistics'.session_start_time = now'
          /\ statistics'.last_update_time = now' ]_vars

C7_Witness ==
    /\ call.op = "__init__"
    /\ now > StartTime
    /\ file.state = "json"
    /\ Get(file.data, "last_updated", 0) = StartTime
    /\ statistics.max_speed_kmh = MaxSpeed
    /\ statistics.max_cornering_force_g = 5
    /\ statistics.max_braking_force_g = 10
    /\ statistics.session_start_time = now

\* C8: a call that changes one of the four statistics writes the file, and
\* when its last write succeeds the file holds the four statistics as they
\* are in memory when the call returns.
C8_PersistedAfterMutation ==
    [][ ( /\ now' = now
          /\ call'.op \in Mutators
          /\ Persisted(statistics') # Persisted(statistics) )
        => /\ call'.wrote # "none"
           /\ call'.wrote = "ok" => FileHolds(file', statistics') ]_vars

C8_Witness ==
    /\ call.op = "update_acceleration"
    /\ call.wrote = "ok"
    /\ write_failed
    /\ statistics.max_cornering_force_g = 5
    /\ statistics.max_braking_force_g = 10
    /\ FileHolds(file, statistics)

(***************************************************************************)
(* Properties of the polled SensorManager (SpecPoll).                      *)
(***************************************************************************)
Accessors ==
    { "get_speed_kmh", "get_altitude_m", "get_temperature_c",
      "get_acceleration_g" }

\* C9: a channel whose last successful accessor call (or, with none, the
\* construction of the manager) lies 5 seconds or more back is reported
\* healthy = false by get_sensor_status, whatever its error flag.
C9_StaleIsUnhealthy ==
    \A c \in Channels :
        now - last_ok[c] >= 5 =>
            /\ ~get_sensor_status(Mgr, now)[c].healthy
            /\ ( call.op = "get_sensor_status" /\ call.t = now )
               => ~ret.value[c].healthy

\* get_sensor_status has just reported a channel that was never read, and
\* whose error flag is false, as not healthy
C9_Witness ==
    /\ call.op = "get_sensor_status"
    /\ call.t = now
    /\ \E c \in Channels :
          /\ c \notin read_ok
          /\ ~sensor_errors[c]
          /\ now - last_ok[c] >= 5
          /\ ~ret.value[c].healthy
          /\ ~ret.value[c].error
          /\ ret.value[c].time_since_last_read >= 5

\* C10: at the instant an accessor call has returned from a successful read,
\* get_sensor_status reports its channel healthy = true and error = false.
C10_SelfHealing ==
    ( call.op \in Accessors /\ ~call.raised /\ call.t = now ) =>
        LET status == get_sensor_status(Mgr, now)[call.channel]
        IN  status.healthy /\ ~status.error

\* the channel was in error and stale when the successful read was made
C10_Witness ==
    /\ call.op \in Accessors
    /\ ~call.raised
    /\ call.t = now
    /\ call.was_error
    /\ call.was_stale
    /\ get_sensor_status(Mgr, now)[call.channel].healthy

\* what each accessor returns when its channel read raises
Fallback ==
    [ get_speed_kmh |-> 0, get_altitude_m |-> 0, get_temperature_c |-> 25,
      get_acceleration_g |-> <<0, 0, OneG>> ]

\* the step is an accessor call on channel c whose read did not raise
ReadsWell(c) ==
    /\ now' = now
    /\ call'.op \in Accessors
    /\ call'.channel = c
    /\ ~call'.raised

\* C11: an accessor call whose channel read raises returns the accessor's
\* fallback, sets the channel's error flag and leaves its last-success time as
\* it was; the flag stays set, and get_sensor_status reports the channel
\* healthy = false, until an accessor call reads the channel with success.
C11_RaisedReadIsContained ==
    [][ /\ ( now' = now /\ call'.op \in Accessors /\ call'.raised ) =>
              /\ ret'.value = Fallback[call'.op]
              /\ sensor_errors'[call'.channel]
              /\ last_successful_reads'[call'.channel] =
                     last_successful_reads[call'.channel]
        /\ \A c \in Channels :
              sensor_errors[c] =>
                 /\ ~get_sensor_status(Mgr, now)[c].healthy
                 /\ Calls("get_sensor_status") => ~ret'.value[c].healthy
                 /\ ~ReadsWell(c) => sensor_errors'[c] ]_vars

\* a read of the thermometer raised, the call returned 25, and a second
\* later, well within the timeout, get_sensor_status reports the channel
\* as not healthy
C11_Witness ==
    /\ call.op = "get_sensor_status"
    /\ call.t = now
    /\ sensor_errors["thermometer"]
    /\ ret.value["thermometer"].error
    /\ ~ret.value["thermometer"].healthy
    /\ ret.value["thermometer"].time_since_last_read = 1
    /\ last_successful_reads["thermometer"] = StartTime
    /\ polls = 1

\* C12 as stated: after an accessor call in which the driver of the altitude,
\* temperature or acceleration channel failed, get_sensor_status reports the
\* channel healthy = false, and the call returned the last known value
\* (altitude, temperature) or the default (acceleration).
C12_DriverFailureIsUnhealthy ==
    ( /\ call.op \in {"get_altitude_m", "get_temperature_c",
                      "get_acceleration_g"}
      /\ call.failed )
    => /\ ~get_sensor_status(Mgr, now)[call.channel].healthy
       /\ call.op = "get_altitude_m" =>
              ret.value = barometer.last_reading.value + altitude_offset
       /\ call.op = "get_temperature_c" =>
              ret.value = thermometer.last_reading.value + temp_offset
       /\ call.op = "get_acceleration_g" => ret.value = <<0, 0, OneG>>

(***************************************************************************)
(* Properties of the calibrated SensorManager (SpecCal).                   *)
(***************************************************************************)
\* the step is a call of the accessor op that read its channel
Reads(op) == call'.op = op /\ polls' = polls + 1 /\ ~call'.raised

\* the step is the accessor call get that follows the calibrate call cal, and
\* its channel read returns what the read in the calibrate call returned
ReadsAsCalibrated(cal, get) ==
    /\ call.op = cal
    /\ Reads(get)
    /\ call'.raw = call.raw

\* C13 as stated: the accessor call that follows a calibrate call, and whose
\* channel read returns the raw value the calibrate call read, returns the
\* known value passed to the calibrate call (speed, altitude, temperature).
C13_CalibratedReadIsKnown ==
    [][ /\ ReadsAsCalibrated("calibrate_speed", "get_speed_kmh") =>
              ret'.value = call.known
        /\ ReadsAsCalibrated("calibrate_altitude", "get_altitude_m") =>
              ret'.value = call.known
        /\ ReadsAsCalibrated("calibrate_temperature", "get_temperature_c") =>
              ret'.value = call.known ]_vars

\* C13 amended: as above for altitude and temperature; get_speed_kmh returns
\* the known speed when it is not negative and 0 when it is.
C13_CalibratedReadIsClampedKnown ==
    [][ /\ ReadsAsCalibrated("calibrate_speed", "get_speed_kmh") =>
              ret'.value = IF call.known >= 0 THEN call.known ELSE 0
        /\ ReadsAsCalibrated("calibrate_altitude", "get_altitude_m") =>
              ret'.value = call.known
        /\ ReadsAsCalibrated("calibrate_temperature", "get_temperature_c") =>
              ret'.value = call.known ]_vars

\* the wheel turns at 18 km/h, calibrate_speed(3) was called, and the
\* get_speed_kmh call after it has returned 3
C13_Witness ==
    /\ call.op = "get_speed_kmh"
    /\ ~call.raised
    /\ call.raw = 18
    /\ hall_sensor.pulse_count = 2
    /\ speed_offset = 3 - 18
    /\ polls = 2
    /\ ret.value = 3

\* C14: every value get_speed_kmh returns is >= 0.
C14_SpeedIsNeverNegative ==
    call.op = "get_speed_kmh" => ret.value >= 0

\* the raw speed plus the offset is negative and get_speed_kmh has returned 0
C14_Witness ==
    /\ call.op = "get_speed_kmh"
    /\ ~call.raised
    /\ call.raw = 18
    /\ call.raw + speed_offset < 0
    /\ ret.value = 0

(***************************************************************************)
(* Properties of the threads (SpecHall).                                   *)
(***************************************************************************)
\* C15: at most one thread is inside the HallSensor's "with self.lock"; when
\* no thread is inside, pulse_count is the number of completed pulse
\* callbacks; and a reader finds in pulse_count every pulse whose time has
\* been written to last_pulse_time.
C15_HallLockProtects ==
    /\ Cardinality({ t \in Threads : pc[t] \in HallCritical }) <= 1
    /\ ( \A t \in Threads : pc[t] \notin HallCritical ) =>
           hall_sensor.pulse_count = hall_log.completed
    /\ \A t \in PollThreads :
           pc[t] = "read_release" =>
               /\ frame[t].pulse_count = frame[t].stamped
               /\ frame[t].pulse_count = hall_log.completed

\* the second pulse, delivered by the other thread a second after the first
\* and after a read, has been counted and is about to release the lock
C15_Witness ==
    /\ pc["t2"] = "pulse_release"
    /\ hall_lock = "t2"
    /\ hall_log.completed = 1
    /\ hall_log.reads = 1
    /\ hall_sensor.pulse_count = 2
    /\ hall_sensor.speed_kmh = 18

(***************************************************************************)
(* Properties of the threads (SpecThreads).                                *)
(***************************************************************************)
AllIdle == \A t \in Threads : pc[t] = "idle"

\* the maxima are the largest values supplied to the tracker, or the values
\* it began with where those are larger
MaximaAreLargestSupplied ==
    /\ statistics.max_speed_kmh = tracker_log.speed
    /\ statistics.max_cornering_force_g = tracker_log.cornering
    /\ statistics.max_braking_force_g = tracker_log.braking

\* the comparison a thread made still holds when it assigns the maximum
StoresAreChecked ==
    \A t \in Threads :
        /\ pc[t] = "us_store" =>
               frame[t].speed_kmh > statistics.max_speed_kmh
        /\ pc[t] = "ua_store_c" =>
               frame[t].lateral_force > statistics.max_cornering_force_g
        /\ pc[t] = "ua_store_b" =>
               frame[t].braking_force > statistics.max_braking_force_g

\* C16: the comparison and the assignment of a maximum are one atomic unit;
\* and when all calls the threads made have returned, and none of them was
\* reset_statistics, each maximum is the largest candidate a call supplied,
\* or the maximum the tracker began with if that is larger, and the file, when
\* the write made last succeeded, holds the statistics as they are in memory.
C16_NoUpdateIsLost ==
    /\ StoresAreChecked
    /\ ( AllIdle /\ tracker_log.resets = 0 ) =>
           /\ MaximaAreLargestSupplied
           /\ tracker_log.last_write = "ok" => FileHolds(file, statistics)

\* three calls on a tracker that began with zeros have returned
C16_Witness ==
    /\ AllIdle
    /\ tracker_log.calls = 3
    /\ tracker_log.resets = 0
    /\ tracker_log.last_write = "ok"
    /\ initial_max = 0
    /\ statistics.max_speed_kmh = 3
    /\ statistics.max_cornering_force_g = 5
    /\ statistics.max_braking_force_g = 10
    /\ FileHolds(file, statistics)

\* C17: what a get_statistics call has read so far of the four statistics is
\* what the tracker holds, at every instant until the call returns: the dict
\* it returns is the tracker's state at one instant.
C17_SnapshotIsConsistent ==
    \A t \in Threads :
        frame[t].op = "get_statistics" =>
            \A k \in 1 .. Min(4, Len(frame[t].result)) :
                frame[t].result[k] = Persisted(statistics)[k]

\* a get_statistics call made after a reset_statistics call on a tracker that
\* loaded its statistics from the file is about to return zeros
C17_Witness ==
    \E t \in Threads :
        /\ pc[t] = "release"
        /\ frame[t].op = "get_statistics"
        /\ frame[t].result = <<0, 0, 0, 0, 0>>
        /\ initial_max = 2
        /\ tracker_log.resets = 1

\* C18: a _save_data whose write fails leaves the statistics in memory as they
\* are and the method goes on as after a write that succeeded; when all calls
\* have returned the lock is free and, with no reset_statistics among them, the
\* maxima are the largest values supplied, whichever writes failed.
C18_FailedWriteIsContained ==
    [][ /\ \A t \in Threads :
              ( pc[t] \in DOMAIN AfterSave /\ pc'[t] # pc[t] ) =>
                  /\ statistics' = statistics
                  /\ pc'[t] = AfterSave[pc[t]]
                  /\ lock' = t
        /\ AllIdle' => lock' = "free"
        /\ ( AllIdle' /\ tracker_log'.resets = 0 ) =>
              MaximaAreLargestSupplied' ]_vars

\* three calls have returned, each write of which failed: the maxima are in
\* memory and the file was never written
C18_Witness ==
    /\ AllIdle
    /\ lock = "free"
    /\ tracker_log.calls = 3
    /\ tracker_log.resets = 0
    /\ tracker_log.last_write = "error"
    /\ file.state = "missing"
    /\ statistics.max_speed_kmh = 3
    /\ statistics.max_cornering_force_g = 5
    /\ statistics.max_braking_force_g = 10

(***************************************************************************)
(* Properties of the construction of a tracker (SpecFile) and of the data  *)
(* source (SpecSource).                                                    *)
(***************************************************************************)
\* C19: a tracker constructed on any file holds, for each of the four keys,
\* the value the file stores under the key when the file parses and has the
\* key, and 0 otherwise (no file, a file that does not parse, a missing key).
C19_ConstructionDefaults ==
    call.op = "__init__" =>
        \A k \in Keys :
            statistics[k] = IF file.state = "json" /\ k \in DOMAIN file.data
                            THEN file.data[k]
                            ELSE 0

\* a process started again on a file that has two of the four keys
C19_Witness ==
    /\ call.op = "__init__"
    /\ call.t > StartTime
    /\ file.state = "json"
    /\ DOMAIN file.data = {"total_distance_km", "max_braking_force_g"}
    /\ statistics.max_speed_kmh = 0
    /\ statistics.total_distance_km = 1
    /\ statistics.max_cornering_force_g = 0
    /\ statistics.max_braking_force_g = 5

\* C20: get_data_source returns "Real Sensors" when RPi.GPIO and the I2C
\* libraries were both imported and "Demo Mode" otherwise; no call changes
\* what was imported, so the answer is the same for the life of the process,
\* whatever the drivers, the reads and the error flags do.
C20_DataSourceIsStatic ==
    [][ /\ HAS_GPIO' = HAS_GPIO
        /\ HAS_I2C' = HAS_I2C
        /\ Calls("get_data_source") =>
              ret'.value = IF HAS_GPIO /\ HAS_I2C
                           THEN "Real Sensors" ELSE "Demo Mode" ]_vars

\* both libraries were imported, the barometer's driver did not initialise, a
\* read of the altitude has raised, and get_data_source answers "Real Sensors"
C20_Witness ==
    /\ call.op = "get_data_source"
    /\ ret.value = "Real Sensors"
    /\ HAS_GPIO
    /\ HAS_I2C
    /\ ~barometer.sensor
    /\ sensor_errors["barometer"]

\* the calls that set the time reference of the distance
ReferenceCalls == { "__init__", "reset_statistics", "update_distance" }

\* C29: the distance is its value at construction or at the last reset
\* plus, for each update_distance since with a speed v above 0, v times
\* the time since the latest of the update_distance calls, resets and
\* construction before it.  Step by step: update_distance adds v times the
\* time since the reference if v > 0 and nothing otherwise, and becomes the
\* reference; reset_statistics sets the distance to 0 and becomes the
\* reference; update_speed, update_acceleration, get_statistics and the
\* clock leave distance and reference alone; and the reference is the
\* time of the call whenever the last call is one of those three.
C29_DistanceIsSumOfLegs ==
    [][ LET ref == statistics.last_update_time
            leg == IF call'.speed > 0 THEN call'.speed * (now - ref) ELSE 0
        IN  /\ call.op \in ReferenceCalls => ref = call.t
            /\ Calls("update_distance") =>
                  /\ statistics'.total_distance_km =
                         statistics.total_distance_km + leg
                  /\ statistics'.last_update_time = now
            /\ Calls("reset_statistics") =>
                  /\ statistics'.total_distance_km = 0
                  /\ statistics'.last_update_time = now
            /\ ~Calls("update_distance") /\ ~Calls("reset_statistics") =>
                  UNCHANGED << statistics.total_distance_km,
                               statistics.last_update_time >> ]_vars

\* a leg of two seconds at MaxSpeed, begun at the construction on a file
\* without distance, with an update_speed on the way
C29_Witness ==
    /\ call.op = "update_distance"
    /\ call.speed = MaxSpeed
    /\ now = StartTime + 2
    /\ statistics.total_distance_km = MaxSpeed * 2
    /\ statistics.session_start_time = StartTime
    /\ statistics.max_speed_kmh = 1
    /\ statistics.last_update_time = now

\* C30: an update that changes no persisted field writes nothing:
\* update_speed with a speed not above the maximum, update_distance with a
\* speed of 0 or less or with no time elapsed, update_acceleration that
\* beats neither maximum, and get_statistics leave the file, last_updated
\* included, as it was; reset_statistics writes always, also when every
\* field is 0 already.
C30_NoChangeNoWrite ==
    [][ LET quiet == /\ call'.wrote = "none"
                     /\ file' = file
                     /\ Persisted(statistics') = Persisted(statistics)
        IN  /\ Calls("update_speed")
                /\ call'.speed <= statistics.max_speed_kmh => quiet
            /\ Calls("update_distance")
                /\ ( call'.speed <= 0
                     \/ now = statistics.last_update_time ) => quiet
            /\ Calls("update_acceleration")
                /\ Persisted(statistics') = Persisted(statistics) => quiet
            /\ Calls("get_statistics") => quiet
            /\ Calls("reset_statistics") =>
                  /\ call'.wrote = "ok"
                  /\ FileHolds(file', ZeroStatistics)
                  /\ file'.data.last_updated = now ]_vars

\* a reset has written the zero fields with the stamp of its time, and an
\* update_speed(0) at a later time has left the file and its stamp alone
C30_Witness ==
    /\ call.op = "update_speed"
    /\ call.speed = 0
    /\ call.wrote = "none"
    /\ Persisted(statistics) = Persisted(ZeroStatistics)
    /\ statistics.session_start_time > StartTime
    /\ FileHolds(file, ZeroStatistics)
    /\ file.data.last_updated = statistics.session_start_time
    /\ now > file.data.last_updated

(***************************************************************************)
(* Properties of the coordinator's calls (SpecFeed, SpecMax)               *)
(***************************************************************************)
\* the step leaves the tracker and its file as the tracker S
Feeds(S) == statistics' = S.stats /\ file' = S.file

\* the coordinator calls that have no business with the statistics
QuietCalls ==
    { "get_altitude_m", "get_temperature_c", "get_sensor_status",
      "get_data_source", "calibrate_speed", "calibrate_altitude",
      "calibrate_temperature" }

\* C21: only the speed and the acceleration accessor feed the statistics:
\* a successful get_speed_kmh leaves the tracker as update_speed followed
\* by update_distance leave it on the offset-adjusted, clamped speed the
\* call returns, a successful get_acceleration_g as update_acceleration
\* leaves it on the tuple the call returns, and the altitude, temperature,
\* status, data-source and calibrate calls leave every statistics field
\* and the statistics file as they were.
C21_OnlySpeedAndAccelerationFeed ==
    [][ /\ Calls("get_speed_kmh") /\ ~call'.raised =>
            /\ ret'.value = Max(0, call'.raw + speed_offset)
            /\ Feeds(update_distance(
                         update_speed(Cur, ret'.value, now, "ok"),
                         ret'.value, now, "ok"))
        /\ Calls("get_acceleration_g") /\ ~call'.raised =>
            Feeds(update_acceleration(Cur, ret'.value, now, "ok", "ok"))
        /\ (\E op \in QuietCalls : Calls(op)) =>
            UNCHANGED << statistics, file >> ]_vars

\* a calibrated speed has been read a second after construction and is the
\* maximum on file, with the distance it covered
C21_Witness ==
    /\ call.op = "get_speed_kmh"
    /\ ~call.raised
    /\ speed_offset > 0
    /\ ret.value = speed_offset
    /\ statistics.max_speed_kmh = ret.value
    /\ statistics.total_distance_km = ret.value * (now - StartTime)
    /\ now > StartTime
    /\ FileHolds(file, statistics)

\* the calibrate call of each offset
CalibrateCalls ==
    { "calibrate_speed", "calibrate_altitude", "calibrate_temperature" }

\* the step is the call of op, which sets its offset from x to x1 and
\* leaves the offsets y and z alone
Calibrates(op, x, x1, y, y1, z, z1) ==
    Calls(op) => x1 = call'.known - call'.raw /\ y1 = y /\ z1 = z

\* C22: the three offsets are 0 at construction; each is changed by its own
\* calibrate call only, to the known value minus the raw reading that call
\* took; every other step (accessors, get_sensor_status, get_data_source,
\* reset_statistics, the clock) leaves all three as they were; and the
\* statistics file never holds a key besides the four statistics and
\* last_updated.
C22_OffsetsAreSetByCalibration ==
    /\ speed_offset = 0 /\ altitude_offset = 0 /\ temp_offset = 0
    /\ [][ /\ Calibrates("calibrate_speed", speed_offset, speed_offset',
                         altitude_offset, altitude_offset',
                         temp_offset, temp_offset')
           /\ Calibrates("calibrate_altitude",
                         altitude_offset, altitude_offset',
                         speed_offset, speed_offset',
                         temp_offset, temp_offset')
           /\ Calibrates("calibrate_temperature", temp_offset, temp_offset',
                         speed_offset, speed_offset',
                         altitude_offset, altitude_offset')
           /\ ~(\E op \in CalibrateCalls : Calls(op)) =>
                UNCHANGED << speed_offset, altitude_offset, temp_offset >>
           /\ file'.state = "json" =>
                DOMAIN file'.data \subseteq Keys \cup {"last_updated"}
        ]_vars

\* the altitude has been calibrated, the speed offset of the calibration
\* before is still in place, and no statistic has moved
C22_Witness ==
    /\ call.op = "calibrate_altitude"
    /\ altitude_offset = call.known - call.raw
    /\ altitude_offset # 0
    /\ speed_offset > 0
    /\ temp_offset = 0
    /\ file = MissingFile

\* C28: the maximum speed of the statistics, and of every snapshot that
\* get_statistics returns, is at least every speed a successful
\* get_speed_kmh has returned since the last reset_statistics or since
\* construction, calibration offset included (max_passed holds the largest
\* of these speeds).
C28_MaxCoversReturnedSpeeds ==
    \A m \in max_passed :
        /\ get_statistics(statistics, now).max_speed_kmh >= m
        /\ call.op = "get_statistics" => ret.value.max_speed_kmh >= m

\* the snapshot after a read of a turning wheel with a positive offset
C28_Witness ==
    /\ call.op = "get_statistics"
    /\ speed_offset > 0
    /\ hall_sensor.speed_kmh > 0
    /\ max_passed = { hall_sensor.speed_kmh + speed_offset }
    /\ ret.value.max_speed_kmh = hall_sensor.speed_kmh + speed_offset

(***************************************************************************)
(* Properties of the channels behind a driver (SpecPoll)                   *)
(***************************************************************************)
\* the step is a read of channel c that reached the channel's driver
ReadsDriver(op, c) == Calls(op) /\ ~call'.raised /\ c.sensor

\* C23: with a driver present, a failed read of the altitude or the
\* temperature channel returns the value of the channel's stored last
\* reading and leaves that reading as it was, a successful one replaces the
\* stored reading by the new value and its time, and nothing else moves the
\* stored reading, which starts at 0.0 and 25.0: so the fallback is the
\* most recent successful read, or the initial value if there is none.  A
\* failed read of the acceleration channel returns (0, 0, 1 g).
C23_FailedReadFallsBack ==
    /\ barometer.last_reading.value = 0
    /\ thermometer.last_reading.value = 25
    /\ [][ /\ ReadsDriver("get_altitude_m", barometer) =>
                IF call'.failed
                THEN /\ call'.raw = barometer.last_reading.value
                     /\ barometer' = barometer
                ELSE barometer'.last_reading = Reading(call'.raw, now)
           /\ ReadsDriver("get_temperature_c", thermometer) =>
                IF call'.failed
                THEN /\ call'.raw = thermometer.last_reading.value
                     /\ thermometer' = thermometer
                ELSE thermometer'.last_reading = Reading(call'.raw, now)
           /\ ReadsDriver("get_acceleration_g", accelerometer)
                /\ call'.failed =>
                    ret'.value = <<0, 0, OneG>>
           /\ ~ReadsDriver("get_altitude_m", barometer) =>
                barometer' = barometer
           /\ ~ReadsDriver("get_temperature_c", thermometer) =>
                thermometer' = thermometer
        ]_vars

\* the barometer's driver has failed after a good read at an earlier time:
\* the call took the stored value, which still carries the earlier time
C23_Witness ==
    /\ call.op = "get_altitude_m"
    /\ call.failed
    /\ barometer.sensor
    /\ call.raw = barometer.last_reading.value
    /\ call.raw \in Altitudes
    /\ barometer.last_reading.timestamp < now
    /\ barometer.last_reading.timestamp >= StartTime

(***************************************************************************)
(* Properties of the wheel channel (SpecCal)                               *)
(***************************************************************************)
\* km/h of one wheel turn in dt seconds: metres per second times 3.6
KmhOfTurn(dt) == (wheel_circumference_m * 36) \div (10 * dt)

\* C24: a pulse sets the speed to the circumference over the time since
\* the pulse before, in km/h, unless it is the first pulse since
\* construction (the speed stays 0) or no time has passed since the pulse
\* before (the speed stays as it is); every pulse sets last_pulse_time to
\* its own time and adds exactly 1 to pulse_count; and no other step
\* changes the speed, the pulse time or the count.
C24_PulseSetsTheSpeed ==
    [][ IF Calls("_pulse_callback")
        THEN LET dt == now - hall_sensor.last_pulse_time
             IN  /\ hall_sensor'.pulse_count = hall_sensor.pulse_count + 1
                 /\ hall_sensor'.last_pulse_time = now
                 /\ hall_sensor.pulse_count = 0 =>
                        hall_sensor'.speed_kmh = 0
                 /\ hall_sensor.pulse_count > 0 /\ dt = 0 =>
                        hall_sensor'.speed_kmh = hall_sensor.speed_kmh
                 /\ hall_sensor.pulse_count > 0 /\ dt > 0 =>
                        hall_sensor'.speed_kmh = KmhOfTurn(dt)
        ELSE hall_sensor' = hall_sensor ]_vars

\* the second pulse came a second after the first, and a read has returned
\* the speed it set
C24_Witness ==
    /\ hall_sensor.pulse_count = 2
    /\ hall_sensor.last_pulse_time = now
    /\ hall_sensor.speed_kmh = KmhOfTurn(1)
    /\ hall_sensor.speed_kmh > 0
    /\ call.op = "get_speed_kmh"
    /\ ~call.raised
    /\ call.raw = hall_sensor.speed_kmh

(***************************************************************************)
(* Properties of the two locks (FairLocks)                                 *)
(***************************************************************************)
\* the locks the thread t holds
Held(t) ==
    (IF hall_lock = t THEN {"hall"} ELSE {}) \cup
    (IF lock = t THEN {"tracker"} ELSE {})

\* C25: no thread ever holds the lock of the HallSensor and the lock of the
\* StatisticsTracker together; a thread holds a lock only while it is in
\* the block the lock is for, so every lock taken is given back whether
\* the write of the block failed or not; and under fair scheduling every
\* call a thread has started (the pulse callback, get_speed_kmh,
\* get_statistics, reset_statistics) returns, whatever the other threads
\* do: the threads never deadlock.
C25_LocksNeverDeadlock ==
    /\ [](\A t \in Threads :
            /\ Cardinality(Held(t)) <= 1
            /\ Held(t) # {} =>
                 /\ pc[t] = "lock_held"
                 /\ Held(t) = IF Section(t) \in HallSections
                              THEN {"hall"} ELSE {"tracker"})
    /\ \A t \in Threads : (pc[t] # "idle") ~> (pc[t] = "idle")

\* a polling thread waits for the tracker's lock in get_speed_kmh while the
\* other holds it in a call whose write has failed before, and the pulse
\* thread holds the lock of the HallSensor
C25_Witness ==
    /\ \E t \in CallerThreads :
          /\ pc[t] = "lock_wait"
          /\ frame[t].op = "get_speed_kmh"
          /\ Section(t) = "update_distance"
    /\ \E t \in CallerThreads : lock = t
    /\ \E t \in MockThreads : hall_lock = t
    /\ write_failed

\* C27: without GPIO the pulse loop goes on delivering pulses: under fair
\* scheduling pulse_count reaches every count up to the model's bound,
\* however often the polling threads take the lock in between, and from
\* the second pulse on the speed of the channel is above 0.
C27_MockPulsesKeepComing ==
    /\ \A n \in 0..MaxMockPulses : <>(hall_sensor.pulse_count >= n)
    /\ [](hall_sensor.pulse_count >= 2 => hall_sensor.speed_kmh > 0)

\* the loop has delivered its pulses a sleep apart, and the polling thread
\* has passed the speed of the wheel on to the statistics
C27_Witness ==
    /\ ~HAS_GPIO
    /\ hall_sensor.pulse_count = MaxMockPulses
    /\ hall_sensor.pulse_count >= 2
    /\ hall_sensor.last_pulse_time = StartTime + MaxMockPulses
    /\ hall_sensor.speed_kmh = KmhOfTurn(1)
    /\ statistics.max_speed_kmh = hall_sensor.speed_kmh

(***************************************************************************)
(* Properties of the file across a crash (SpecCrash)                       *)
(***************************************************************************)
\* C26: whenever the process stops, between two calls or inside the
\* _save_data of a mutating call, the tracker constructed next on the same
\* file loads the four persisted fields as they were in memory after the
\* last mutating update or just before it: a crash loses the last update
\* at most.
C26_CrashLosesAtMostLastUpdate ==
    [][ call'.op = "__init__" =>
            IF "stopped_in" \in DOMAIN call'
            THEN Persisted(statistics') \in { call'.before, call'.after }
            ELSE Persisted(statistics') = Persisted(statistics) ]_vars

(***************************************************************************)
(* Properties of the file after failed writes (SpecFile)                   *)
(***************************************************************************)
\* the tracker after the first of the two writes of update_acceleration
AfterCornering ==
    [statistics' EXCEPT !.max_braking_force_g =
                            statistics.max_braking_force_g]

\* C31: the file catches up after a failed write: a mutating call whose
\* write succeeds leaves the file with all four fields as they are in
\* memory, changes whose own writes had failed included, and a call whose
\* write fails, like a call that does not write, leaves the file with the
\* content of the last write that succeeded (for update_acceleration that
\* may be the first of its two writes).
C31_FileCatchesUp ==
    [][ ( now' = now /\ call'.op \in Mutators ) =>
            IF call'.wrote = "ok"
            THEN /\ FileHolds(file', statistics')
                 /\ file'.data.last_updated = now
            ELSE \/ file' = file
                 \/ /\ call'.op = "update_acceleration"
                    /\ call'.wrote # "none"
                    /\ FileHolds(file', AfterCornering)
                    /\ file'.data.last_updated = now ]_vars

====
